---- MODULE Spec2Model ----
(***************************************************************************)
(* A model of the proxmoxbot command dispatch and monitoring engine:       *)
(* the resource resolver (utils/api.py), the access gate (utils/common.py),*)
(* the command handlers and confirmation prompts (cogs/management.py,      *)
(* cogs/basic.py) and the monitor loop with its watchlist file             *)
(* (cogs/monitoring.py).                                                   *)
(***************************************************************************)
EXTENDS Integers, Sequences, FiniteSets, TLC

(***************************************************************************)
(* Bounds of the model.                                                    *)
(***************************************************************************)
\* machine identifiers are 1..MaxId
MaxId == 2
\* an inventory listing given to the resolver has at most MaxInv entries
MaxInv == 2
\* slots for command invocations
MaxTasks == 2
\* button presses one confirmation prompt receives
MaxClicks == 2
\* ticks of the monitor loop
MaxTicks == 2

(***************************************************************************)
(* State.                                                                  *)
(***************************************************************************)
VARIABLES
  ALLOWED_CATEGORY_ID,  \* config.ALLOWED_CATEGORY_ID as loaded at startup
  rResp,    \* resolver run: what the inventory call gives back
  rArg,     \* resolver run: the id asked for
  rOut,     \* resolver run: the result
  rPc,      \* resolver run: "call" before, "done" after
  fRun,     \* watchlist file run: the last save or load made, and the one before
  cluster,  \* the hypervisor: the state of each machine
  file,     \* the watchlist file
  tasks,    \* the command invocations: one record per slot
  view,     \* the confirmation prompt each invocation presented, if any
  cbs,      \* the button callbacks started on each prompt, in click order
  mon,      \* the monitor loop
  uptime,   \* uptime rendering run: the seconds given and the text rendered
  listing,  \* list rendering run: the inventory answer and what was rendered
  boot      \* startup: the cogs directory, the extensions loaded, the sync

vars == <<ALLOWED_CATEGORY_ID, rResp, rArg, rOut, rPc, fRun, cluster, file, tasks, view, cbs, mon,
          uptime, listing, boot>>
renderVars == <<uptime, listing>>
startupVars == <<boot>>
configVars == <<ALLOWED_CATEGORY_ID>>
resolverVars == <<rResp, rArg, rOut, rPc>>
promptVars == <<view, cbs>>

(***************************************************************************)
(* Values.                                                                 *)
(***************************************************************************)
\* Python's None
None == "None"

Nodes == {"pve1", "pve2"}
Kinds == {"qemu", "lxc"}
PowerStates == {"running", "stopped", "paused"}

Ids == 1..MaxId

\* An identifier as the hypervisor's JSON, or a caller, may hand it over:
\* a number, or a string of decimal digits.
IntId(n) == [tag |-> "int", ival |-> n, sval |-> <<>>]
StrId(s) == [tag |-> "str", ival |-> 0, sval |-> s]

RECURSIVE ParseDigits(_)
\* int("007") = 7: the decimal value of a string of digits
ParseDigits(s) ==
  IF s = <<>> THEN 0
  ELSE 10 * ParseDigits(SubSeq(s, 1, Len(s) - 1)) + s[Len(s)]

\* Python's int(x) for a number or a string of digits
PyInt(x) == IF x.tag = "int" THEN x.ival ELSE ParseDigits(x.sval)

\* str(n), and the same with a leading zero: two strings int() maps to n
Decimal(n) == IF n < 10 THEN <<n>> ELSE <<n \div 10, n % 10>>
StrForms(n) == {Decimal(n), <<0>> \o Decimal(n)}

RawIds == {IntId(n) : n \in Ids} \cup {StrId(s) : s \in UNION {StrForms(n) : n \in Ids}}

(***************************************************************************)
(* The resolver: utils/api.py get_device_node_and_type.                    *)
(***************************************************************************)
\* One entry of the cluster resource listing (cluster.resources.get).
Entry(v, n, k, st) == [vmid |-> v, node |-> n, type |-> k, status |-> st]

\* What the inventory call gives back: it raises, it yields no data (None),
\* or it yields a list of entries.
RespRaise == [kind |-> "raise", list |-> <<>>]
RespNone == [kind |-> "none", list |-> <<>>]
RespList(l) == [kind |-> "list", list |-> l]

\* the comparison of one inventory entry with the wanted id, as a bug would
\* write it: the raw values, not normalised
IdMatchesRaw(res, vmid) == res.vmid = vmid

\* int(res.get('vmid')) == int(vmid)
IdMatches(res, vmid) == PyInt(res.vmid) = PyInt(vmid)

RECURSIVE ScanFrom(_, _, _)
\* the for loop over resources: the first matching entry is returned
ScanFrom(l, i, vmid) ==
  IF i > Len(l) THEN [kind |-> "fallthrough", node |-> None, type |-> None]
  ELSE IF IdMatches(l[i], vmid)
       THEN [kind |-> "return", node |-> l[i].node, type |-> l[i].type]
       ELSE ScanFrom(l, i + 1, vmid)

\* The body of the try block: the inventory call, then the scan.  Iterating
\* over None raises, as does a failed call.
ResolveTry(resp, vmid) ==
  IF resp.kind = "list" THEN ScanFrom(resp.list, 1, vmid)
  ELSE [kind |-> "raise", node |-> None, type |-> None]

NotFound == [raised |-> FALSE, node |-> None, type |-> None]

\* the resolver without its except clause: the failure reaches the caller
GetDeviceNodeAndTypeNoCatch(resp, vmid) ==
  LET r == ResolveTry(resp, vmid)
  IN  CASE r.kind = "return" -> [raised |-> FALSE, node |-> r.node, type |-> r.type]
        [] r.kind = "raise" -> [raised |-> TRUE, node |-> None, type |-> None]
        [] OTHER -> NotFound

\* get_device_node_and_type: try: ... return node, type / except: print /
\* return None, None
GetDeviceNodeAndType(resp, vmid) ==
  LET r == ResolveTry(resp, vmid)
  IN  IF r.kind = "return"
      THEN [raised |-> FALSE, node |-> r.node, type |-> r.type]
      ELSE NotFound

(***************************************************************************)
(* The access gate: utils/common.py check_access.                          *)
(***************************************************************************)
\* the category of the channel a command comes from; None when the channel
\* has no category
Cats == {"admin", "other", None}

\* a gate that lets every context through
CheckAccessOpen(cat) == None

\* check_access: the denial message, or None when the command is allowed
CheckAccess(cat) == IF cat # ALLOWED_CATEGORY_ID THEN "denied" ELSE None

(***************************************************************************)
(* The hypervisor, as the calls of the program see it.                     *)
(***************************************************************************)
\* a machine is absent, or in one of the power states
MachineStates == {"absent"} \cup PowerStates

NodeOf(id) == IF id % 2 = 1 THEN "pve1" ELSE "pve2"
KindOf(id) == IF id % 2 = 1 THEN "qemu" ELSE "lxc"

RECURSIVE InventoryFrom(_, _)
\* cluster.resources.get(type='vm'): one entry per existing machine
InventoryFrom(cl, i) ==
  IF i > MaxId THEN <<>>
  ELSE (IF cl[i] = "absent" THEN <<>>
        ELSE <<Entry(IntId(i), NodeOf(i), KindOf(i), cl[i])>>)
       \o InventoryFrom(cl, i + 1)

\* the answers the inventory call can give in a cluster state: the listing,
\* or a failure
InventoryResponses(cl) == {RespRaise, RespList(InventoryFrom(cl, 1))}

\* one hypervisor call, or one access to the watchlist file, as logged
Call(op, node, type, vmid) == [op |-> op, node |-> node, type |-> type, vmid |-> vmid]

\* what a successful call does to the machine it targets
Effect(cl, op, vmid) ==
  CASE op \in {"status.start.post", "status.reboot.post"} -> [cl EXCEPT ![vmid] = "running"]
    [] op \in {"status.stop.post", "status.shutdown.post"} -> [cl EXCEPT ![vmid] = "stopped"]
    [] op = "delete" -> [cl EXCEPT ![vmid] = "absent"]
    [] OTHER -> cl

\* the outcomes a per-machine call can have: it fails when the machine is
\* gone, and may fail for any other reason
Outcomes(cl, vmid) == IF cl[vmid] = "absent" THEN {FALSE} ELSE BOOLEAN

(***************************************************************************)
(* The watchlist file: cogs/monitoring.py load_monitor_list and            *)
(* save_monitor_list.                                                      *)
(***************************************************************************)
\* config.MONITOR_VM_IDS as configured, the seed of a watchlist file that
\* does not exist
MONITOR_VM_IDS == <<1>>

\* getattr(config, 'MONITOR_VM_IDS', []): the configured list, or the empty
\* list when the configuration has none
InitialList(cfg) == IF cfg = None THEN <<>> ELSE cfg

\* How a read of the file and a write of it can end.  A write fails with the
\* file as it was (open(..., 'w') is refused), or with the file truncated
\* by open(..., 'w') and its new content not, or only partly, written.
ReadOutcomes == {"ok", "fail"}
WriteOutcomes == {"ok", "denied", "torn"}

\* json.dump of a list of integers: the decimal digits of each, in order
JsonDump(ids) == [i \in 1..Len(ids) |-> Decimal(ids[i])]

\* a parse that stops after the first number
JsonLoadFirst(text) == IF text = <<>> THEN <<>> ELSE <<ParseDigits(text[1])>>

\* json.load of such an array: the value of each number, in order
JsonLoad(text) == [i \in 1..Len(text) |-> ParseDigits(text[i])]

\* The file: absent, a JSON array, or content json.load rejects.
FileAbsent == [kind |-> "absent", text |-> <<>>]
FileCorrupt == [kind |-> "corrupt", text |-> <<>>]
FileList(ids) == [kind |-> "list", text |-> JsonDump(ids)]

\* the list a file holds, as a successful load reads it
Stored(f) == JsonLoad(f.text)

\* save_monitor_list: the whole list replaces the file's content; a failure
\* is printed and the function returns all the same
SaveMonitorList(f, ids, wr) ==
  CASE wr = "ok" -> FileList(ids)
    [] wr = "denied" -> f
    [] OTHER -> FileCorrupt

\* load_monitor_list: the list returned, the file afterwards, the accesses
\* made, the failure met on the way, and whether the function raised
LoadMonitorList(f, cfg, rd, wr) ==
  CASE f.kind = "absent" ->
         [ids |-> InitialList(cfg), file |-> SaveMonitorList(f, InitialList(cfg), wr),
          ops |-> <<Call("file.exists", None, None, 0), Call("file.write", None, None, 0)>>,
          fault |-> IF wr = "ok" THEN "none" ELSE wr, raised |-> FALSE]
    [] f.kind = "list" /\ rd = "ok" ->
         [ids |-> JsonLoad(f.text), file |-> f,
          ops |-> <<Call("file.exists", None, None, 0), Call("file.read", None, None, 0)>>,
          fault |-> "none", raised |-> FALSE]
    [] OTHER ->
         [ids |-> <<>>, file |-> f,
          ops |-> <<Call("file.exists", None, None, 0), Call("file.read", None, None, 0)>>,
          fault |-> "read", raised |-> FALSE]

\* bptcode.py's load_monitor_list: config.MONITOR_VM_IDS is read as an
\* attribute, outside any try
BptLoadMonitorList(f, cfg, rd, wr) ==
  IF f.kind = "absent" /\ cfg = None
  THEN [ids |-> <<>>, file |-> f, ops |-> <<Call("file.exists", None, None, 0)>>,
        fault |-> "none", raised |-> TRUE]
  ELSE LoadMonitorList(f, cfg, rd, wr)

\* a membership test that finds nothing
InListNever(l, v) == FALSE

\* vmid in current_list
InList(l, v) == \E i \in 1..Len(l) : l[i] = v

\* a remove that leaves the list as it is
RemoveNothing(l, v) == l

RECURSIVE RemoveFirst(_, _)
\* current_list.remove(vmid): the first occurrence goes
RemoveFirst(l, v) ==
  IF l = <<>> THEN <<>>
  ELSE IF Head(l) = v THEN Tail(l) ELSE <<Head(l)>> \o RemoveFirst(Tail(l), v)

(***************************************************************************)
(* The command handlers: cogs/management.py, cogs/basic.py,                *)
(* cogs/monitoring.py.                                                     *)
(***************************************************************************)
Tasks == 1..MaxTasks

\* the commands that resolve their target before acting on it
Targeted == {"info", "graph", "resize", "start", "reboot", "shutdown", "delete",
             "snapshot_create", "snapshot_list", "snapshot_rollback"}

\* the per-machine calls a handler makes once its target is resolved, in order
Program(cmd) ==
  CASE cmd = "info" -> <<"status.current.get", "config.get">>
    [] cmd = "graph" -> <<"rrddata.get", "status.current.get">>
    [] cmd = "resize" -> <<"config.post">>
    [] cmd = "start" -> <<"status.start.post">>
    [] cmd = "reboot" -> <<"status.reboot.post">>
    [] cmd = "shutdown" -> <<"status.shutdown.post">>
    [] cmd = "delete" -> <<"status.stop.post", "delete">>
    [] cmd = "snapshot_create" -> <<"snapshot.post">>
    [] cmd = "snapshot_list" -> <<"snapshot.get">>
    [] cmd = "snapshot_rollback" -> <<"snapshot.get">>
    [] cmd = "create" -> <<"clone.post">>
    [] OTHER -> <<>>

\* config.NODE_NAME, the node create clones on
NODE_NAME == "pve1"

SnapNames == {"s1", "s2"}

IdleTask ==
  [cmd |-> "none", vmid |-> 0, newid |-> 0, name |-> None, cat |-> None,
   pc |-> "idle", node |-> None, type |-> None, step |-> 0, calls |-> <<>>,
   results |-> <<>>, reply |-> "none", cur |-> <<>>, fault |-> "none",
   snaps |-> {}, status |-> None, lines |-> <<>>, seqs |-> <<>>]

\* a slot that takes no invocation
OffTask == [IdleTask EXCEPT !.pc = "off"]

\* the invocation as the handler is entered
Begin(cmd, vmid, newid, name, cat) ==
  [IdleTask EXCEPT !.cmd = cmd, !.vmid = vmid, !.newid = newid, !.name = name,
                   !.cat = cat]

\* the handler sends msg and returns
Reply(tk, msg) == [tk EXCEPT !.reply = msg, !.pc = "done"]

\* the handler logs one more call
Logged(tk, c) == [tk EXCEPT !.calls = Append(tk.calls, c)]

\* a check that lets an unresolved target through
UnresolvedNever(r) == FALSE

\* if not node or not vm_type
Unresolved(r) == r.node = None \/ r.type = None

(***************************************************************************)
(* The monitor loop: cogs/monitoring.py Monitoring.monitor_vms.            *)
(***************************************************************************)
\* The loop between ticks, before its first.  ids is the list the tick
\* loaded, i the entry it is at, node and type what the resolver gave for it,
\* st the power state fetched for it, log one record per entry the tick is
\* through with, ran whether the last tick got past its channel check,
\* ready whether the bot has reported readiness, alerted the ids the ticks
\* before this one delivered an alert for.
MonIdle ==
  [pc |-> "wait", ids |-> <<>>, i |-> 0, node |-> None, type |-> None,
   st |-> None, log |-> <<>>, ticks |-> 0, ran |-> FALSE, ready |-> FALSE,
   alerted |-> {}]

\* the loop once the bot is ready
MonReady == [MonIdle EXCEPT !.ready = TRUE]

\* a loop that does not wait for readiness
BeforeMonitorSkipped(m) == TRUE

\* before_monitor: await self.bot.wait_until_ready()
BeforeMonitor(m) == m.ready

\* what a tick did for one entry: whether it resolved, the status calls
\* issued, the power state fetched, the channel.send calls issued, the alerts
\* delivered, and the failure caught
EntryLog(vmid, resolved, fetches, fetched, sends, alerts, err) ==
  [vmid |-> vmid, resolved |-> resolved, fetches |-> fetches, fetched |-> fetched,
   sends |-> sends, alerts |-> alerts, err |-> err]

\* an alert for every machine that is not running
IsStoppedNotRunning(st) == st # "running"

\* status_data.get('status') == 'stopped'
IsStopped(st) == st = "stopped"

\* the loop goes on to the next entry; past the last one the tick is over
NextEntry(m, rec) ==
  LET l == Append(m.log, rec)
  IN  IF m.i < Len(m.ids)
      THEN [m EXCEPT !.log = l, !.i = m.i + 1, !.pc = "resolve",
                     !.node = None, !.type = None, !.st = None]
      ELSE [m EXCEPT !.log = l, !.i = 0, !.pc = "wait", !.node = None,
                     !.type = None, !.st = None]

\* a try around the whole loop: the first failure ends the tick
OnEntryErrorAbort(m, rec) ==
  [m EXCEPT !.log = Append(m.log, rec), !.i = 0, !.pc = "wait",
            !.node = None, !.type = None, !.st = None]

\* except Exception inside the for: the failure is printed and the loop goes on
OnEntryError(m, rec) == NextEntry(m, rec)

\* No save or load made yet.  cfg is config.MONITOR_VM_IDS (None when the
\* configuration has none), impl the module whose functions run, last the
\* operation made last, pre the file before it, arg the list it saved, out
\* the list it loaded; prev keeps the same of the operation before.
NoFileOp ==
  [last |-> "none", prekind |-> "none", arg |-> <<>>, wr |-> "none",
   out |-> <<>>, fault |-> "none", raised |-> FALSE]

NoFileRun ==
  [cfg |-> None, impl |-> "cogs", op |-> NoFileOp, pre |-> FileAbsent,
   prev |-> NoFileOp]

\* startup is over: the extensions are loaded and the commands synced
Started == [pc |-> "done", dir |-> <<>>, i |-> 0, loaded |-> {}, registered |-> {}]

\* no rendering run made
NoUptime == [pc |-> "off", sec |-> 0, str |-> <<>>]
NoListing == [pc |-> "off", resp |-> RespRaise, kind |-> "none", lines |-> <<>>]

(***************************************************************************)
(* The resolver on its own: every bounded inventory and id.                *)
(***************************************************************************)
EntrySet == {Entry(v, n, k, "running") : v \in RawIds, n \in Nodes, k \in Kinds}
ListsUpTo(S, n) == UNION {[1..m -> S] : m \in 0..n}
ResponseSet == {RespRaise, RespNone} \cup {RespList(l) : l \in ListsUpTo(EntrySet, MaxInv)}

InitResolve ==
  /\ rResp \in ResponseSet
  /\ rArg \in RawIds
  /\ rOut = NotFound
  /\ rPc = "call"
  /\ fRun = NoFileRun
  /\ ALLOWED_CATEGORY_ID = "admin"
  /\ cluster = [i \in Ids |-> "absent"]
  /\ file = FileAbsent
  /\ tasks = [t \in Tasks |-> OffTask]
  /\ view = [t \in Tasks |-> "none"]
  /\ cbs = [t \in Tasks |-> <<>>]
  /\ mon = MonIdle
  /\ uptime = NoUptime /\ listing = NoListing
  /\ boot = Started

ResolveCall ==
  /\ rPc = "call"
  /\ rOut' = GetDeviceNodeAndType(rResp, rArg)
  /\ rPc' = "done"
  /\ UNCHANGED <<configVars, startupVars, renderVars, rResp, rArg, fRun, cluster, file, tasks, promptVars, mon>>

NextResolve == ResolveCall

SpecResolve == InitResolve /\ [][NextResolve]_vars

\* the positions of the listing whose entry has the numeric id asked for
MatchIdx == {i \in 1..Len(rResp.list) : PyInt(rResp.list[i].vmid) = PyInt(rArg)}

\* C8: on every inventory listing, an id no entry has resolves to nothing, and
\* an id exactly one entry has resolves to that entry's node and kind, whatever
\* the other entries are and whether either side writes the id as a string or
\* as a number.
C8_ResolveByNumericId ==
  (rPc = "done" /\ rResp.kind = "list") =>
     /\ (MatchIdx = {} => rOut = NotFound)
     /\ (Cardinality(MatchIdx) = 1 =>
           \A i \in MatchIdx :
              rOut = [raised |-> FALSE, node |-> rResp.list[i].node,
                      type |-> rResp.list[i].type])

\* the wanted entry comes second, after an entry of another machine on another
\* node, and is written as a string where the caller passes a number
C8_Witness ==
  /\ rPc = "done" /\ rResp.kind = "list" /\ Len(rResp.list) = 2
  /\ MatchIdx = {2}
  /\ rArg.tag = "int" /\ rResp.list[2].vmid.tag = "str"
  /\ rResp.list[1].node # rResp.list[2].node
  /\ rOut.node = rResp.list[2].node /\ rOut.type = rResp.list[2].type

\* C9: the resolver never raises, and when the inventory call fails or the
\* scan hits an error its result is nothing, the very result of an absent id.
C9_ResolveNeverRaises ==
  rPc = "done" =>
     /\ rOut.raised = FALSE
     /\ (rResp.kind # "list" =>
           /\ rOut = NotFound
           /\ rOut = GetDeviceNodeAndType(RespList(<<>>), rArg))

\* the inventory call raised and the caller got nothing, not an exception
C9_Witness ==
  /\ rPc = "done" /\ rResp.kind = "raise"
  /\ rOut.raised = FALSE /\ rOut.node = None /\ rOut.type = None

(***************************************************************************)
(* The watchlist file functions on their own: every bounded list, every    *)
(* file, every way a read or a write can end, in both modules that define  *)
(* them.                                                                   *)
(***************************************************************************)
InitFile ==
  /\ rResp = RespRaise /\ rArg = IntId(1) /\ rOut = NotFound /\ rPc = "off"
  /\ ALLOWED_CATEGORY_ID = "admin"
  /\ \E cfg \in {None, MONITOR_VM_IDS}, impl \in {"cogs", "bpt"} :
       fRun = [NoFileRun EXCEPT !.cfg = cfg, !.impl = impl]
  /\ cluster = [i \in Ids |-> "absent"]
  /\ file \in {FileAbsent, FileCorrupt} \cup {FileList(l) : l \in ListsUpTo(Ids, MaxInv)}
  /\ tasks = [t \in Tasks |-> OffTask]
  /\ view = [t \in Tasks |-> "none"]
  /\ cbs = [t \in Tasks |-> <<>>]
  /\ mon = MonIdle
  /\ uptime = NoUptime /\ listing = NoListing
  /\ boot = Started

\* save_monitor_list(ids)
FileSave ==
  /\ \E ids \in ListsUpTo(Ids, MaxInv), wr \in WriteOutcomes :
       /\ file' = SaveMonitorList(file, ids, wr)
       /\ fRun' = [fRun EXCEPT !.prev = fRun.op, !.pre = file,
                               !.op = [NoFileOp EXCEPT !.last = "save",
                                                       !.prekind = file.kind,
                                                       !.arg = ids, !.wr = wr]]
  /\ UNCHANGED <<configVars, startupVars, renderVars, resolverVars, cluster, tasks, promptVars, mon>>

\* load_monitor_list()
FileLoad ==
  /\ \E rd \in ReadOutcomes, wr \in WriteOutcomes :
       LET ld == IF fRun.impl = "bpt"
                 THEN BptLoadMonitorList(file, fRun.cfg, rd, wr)
                 ELSE LoadMonitorList(file, fRun.cfg, rd, wr)
       IN  /\ file' = ld.file
           /\ fRun' = [fRun EXCEPT !.prev = fRun.op, !.pre = file,
                                   !.op = [NoFileOp EXCEPT
                                             !.last = "load",
                                             !.prekind = file.kind,
                                             !.wr = IF file.kind = "absent" /\ ~ld.raised
                                                    THEN wr ELSE "none",
                                             !.out = ld.ids, !.fault = ld.fault,
                                             !.raised = ld.raised]]
  /\ UNCHANGED <<configVars, startupVars, renderVars, resolverVars, cluster, tasks, promptVars, mon>>

NextFile ==
  \/ FileSave
  \/ FileLoad

SpecFile == InitFile /\ [][NextFile]_vars

\* the ids of a list, as a set
SetOf(l) == {l[i] : i \in 1..Len(l)}

\* C15: a list saved and then loaded, with no write in between and with the
\* write and the read both succeeding, comes back with the same set of ids
\* (the same list, even), whatever the list and whatever the file was before.
C15_SaveLoadRoundTrip ==
  (/\ fRun.op.last = "load" /\ fRun.op.fault = "none"
   /\ fRun.prev.last = "save" /\ fRun.prev.wr = "ok")
     => /\ SetOf(fRun.op.out) = SetOf(fRun.prev.arg)
        /\ fRun.op.out = fRun.prev.arg

\* a two-id list has been saved and loaded back
C15_Witness ==
  /\ fRun.op.last = "load" /\ fRun.op.fault = "none"
  /\ fRun.prev.last = "save" /\ fRun.prev.wr = "ok"
  /\ Cardinality(SetOf(fRun.prev.arg)) = 2
  /\ fRun.op.out = fRun.prev.arg

\* C16: a load that finds no file does not raise, returns the configured
\* seed (the empty list when none is configured) and, its write succeeding,
\* leaves the seed in the file.
C16_AbsentLoadSeeds ==
  (fRun.op.last = "load" /\ fRun.op.prekind = "absent")
     => /\ ~fRun.op.raised
        /\ fRun.op.out = InitialList(fRun.cfg)
        /\ fRun.op.wr = "ok" => (file.kind = "list" /\ Stored(file) = InitialList(fRun.cfg))

\* C17: a save whose write fails leaves the file as it was before the save.
C17_FailedSaveLeavesFile ==
  (fRun.op.last = "save" /\ fRun.op.wr # "ok") => file = fRun.pre

(***************************************************************************)
(* The command handlers as actions.  A step runs a handler from one await  *)
(* to the next; interaction.response.defer() is taken with the step before *)
(* it, and a hypervisor call is logged when it is issued and answered in a *)
(* step of its own.                                                        *)
(***************************************************************************)
SetTask(t, tk) == tasks' = [tasks EXCEPT ![t] = tk]

\* info, graph, resize, start, reboot, shutdown, delete and the snapshot
\* commands up to their resolver call: the gate, then defer
InvokeTargeted(t) ==
  /\ tasks[t].pc = "idle"
  /\ \E cmd \in Targeted, vmid \in Ids, cat \in Cats,
        name \in SnapNames \cup {None} :
       /\ (name # None) <=> (cmd \in {"snapshot_create", "snapshot_rollback"})
       /\ LET tk == Begin(cmd, vmid, 0, name, cat)
          IN  SetTask(t, IF CheckAccess(cat) # None
                         THEN Reply(tk, CheckAccess(cat))
                         ELSE [tk EXCEPT !.pc = "resolve"])
  /\ UNCHANGED <<configVars, startupVars, renderVars, resolverVars, fRun, cluster, file, promptVars, mon>>

RECURSIVE IssuedUpTo(_)
\* the per-machine calls the handlers of slots 1..n have issued so far
IssuedUpTo(n) == IF n = 0 THEN 0 ELSE Len(tasks[n].seqs) + IssuedUpTo(n - 1)

\* the handler's call reaches the hypervisor: seqs keeps, for each
\* per-machine call of the handler, how many such calls the handlers had
\* issued before it
Stamped(tk) == [tk EXCEPT !.seqs = Append(@, IssuedUpTo(MaxTasks))]

\* a resolver return that waits while another handler is at work on the
\* same machine
ResolveExclusive(t) ==
  /\ tasks[t].pc = "resolve"
  /\ \A u \in Tasks \ {t} :
       ~(tasks[u].vmid = tasks[t].vmid /\ tasks[u].pc \in {"call", "sleep"})
  /\ \E resp \in InventoryResponses(cluster) :
       LET tk == Logged(tasks[t], Call("cluster.resources.get", None, None, 0))
           r == GetDeviceNodeAndType(resp, IntId(tk.vmid))
       IN  SetTask(t, IF Unresolved(r)
                      THEN Reply(tk, "not_found")
                      ELSE [Stamped(Logged(tk, Call(Program(tk.cmd)[1], r.node, r.type,
                                                    tk.vmid)))
                              EXCEPT !.node = r.node, !.type = r.type,
                                     !.step = 1, !.pc = "call"])
  /\ UNCHANGED <<configVars, startupVars, renderVars, resolverVars, fRun, cluster, file, promptVars, mon>>

\* the resolver call returns: machine not found, or the first per-machine
\* call of the handler is issued
Resolve(t) ==
  /\ tasks[t].pc = "resolve"
  /\ \E resp \in InventoryResponses(cluster) :
       LET tk == Logged(tasks[t], Call("cluster.resources.get", None, None, 0))
           r == GetDeviceNodeAndType(resp, IntId(tk.vmid))
       IN  SetTask(t, IF Unresolved(r)
                      THEN Reply(tk, "not_found")
                      ELSE [Stamped(Logged(tk, Call(Program(tk.cmd)[1], r.node, r.type,
                                                    tk.vmid)))
                              EXCEPT !.node = r.node, !.type = r.type,
                                     !.step = 1, !.pc = "call"])
  /\ UNCHANGED <<configVars, startupVars, renderVars, resolverVars, fRun, cluster, file, promptVars, mon>>

\* create: the gate, defer, then the clone call on the configured node
Create(t) ==
  /\ tasks[t].pc = "idle"
  /\ \E template \in Ids, newid \in Ids, cat \in Cats :
       LET tk == Begin("create", template, newid, None, cat)
       IN  SetTask(t, IF CheckAccess(cat) # None
                      THEN Reply(tk, CheckAccess(cat))
                      ELSE [Stamped(Logged(tk, Call("clone.post", NODE_NAME, "qemu",
                                                    template)))
                              EXCEPT !.step = 1, !.pc = "call"])
  /\ UNCHANGED <<configVars, startupVars, renderVars, resolverVars, fRun, cluster, file, promptVars, mon>>

\* the outcomes of the call a handler waits for
CallOutcomes(tk) ==
  IF tk.cmd = "create"
  THEN IF \/ cluster[tk.vmid] = "absent" \/ cluster[tk.newid] # "absent"
          \/ NodeOf(tk.vmid) # NODE_NAME \/ KindOf(tk.vmid) # "qemu"
       THEN {FALSE} ELSE BOOLEAN
  ELSE Outcomes(cluster, tk.vmid)

\* the handler issues the next call of its program
IssueNext(tk) ==
  [Stamped(Logged(tk, Call(Program(tk.cmd)[tk.step + 1], tk.node, tk.type, tk.vmid)))
     EXCEPT !.step = tk.step + 1, !.pc = "call"]

\* a delete whose failed stop ends the handler with the failure message
AfterCallStopFatal(tk, ok, extra) ==
  IF ~ok THEN Reply(tk, "failed")
  ELSE IF tk.step < Len(Program(tk.cmd)) THEN IssueNext(tk)
  ELSE Reply(tk, "ok")

\* a check that finds every name
SnapshotExistsAlways(snaps, name) == TRUE

\* any(s.get('name') == name for s in snapshots), snaps being the names of
\* the list fetched
SnapshotExists(snaps, name) == name \in snaps

\* a handler that issues a failed call a second time
AfterCallRetry(tk, ok, extra) ==
  IF ~ok /\ Len(tk.results) < 2
  THEN [Logged(tk, tk.calls[Len(tk.calls)]) EXCEPT !.pc = "call"]
  ELSE IF ~ok THEN Reply(tk, "failed")
  ELSE IF tk.step < Len(Program(tk.cmd)) THEN IssueNext(tk)
  ELSE Reply(tk, "ok")

\* What a handler does when the call it waits for returns.  extra is the
\* part of the answer the handler looks at: no rrd data for graph, the
\* named snapshot missing for rollback, the renderer failing for graph.
AfterCall(tk, ok, extra) ==
  CASE tk.cmd = "delete" /\ tk.step = 1 ->
         \* try: stop; sleep(2) / except: pass
         IF ok THEN [tk EXCEPT !.pc = "sleep"] ELSE IssueNext(tk)
    [] ~ok /\ ~(tk.cmd = "delete" /\ tk.step = 1) -> Reply(tk, "failed")
    [] ok /\ tk.cmd = "graph" /\ tk.step = 1 ->
         IF extra THEN Reply(tk, "no_data") ELSE IssueNext(tk)
    [] ok /\ tk.cmd = "graph" /\ tk.step = 2 ->
         IF extra THEN Reply(tk, "failed") ELSE Reply(tk, "ok")
    [] ok /\ tk.cmd = "snapshot_rollback" ->
         IF extra THEN Reply(tk, "snapshot_not_found") ELSE Reply(tk, "prompt")
    [] ok /\ tk.cmd = "info" /\ tk.step = 1 -> IssueNext(tk)
    [] ok /\ tk.cmd = "info" /\ tk.step = 2 -> Reply(tk, "panel")
    [] OTHER -> Reply(tk, "ok")

\* a delete that takes the machine off the watchlist as well
CallReturnUnlist(t) ==
  /\ tasks[t].pc = "call"
  /\ \E ok \in CallOutcomes(tasks[t]), extra \in BOOLEAN, snaps \in SUBSET SnapNames :
       LET listed == ok /\ tasks[t].cmd = "snapshot_rollback"
           tk == [tasks[t] EXCEPT
                    !.results = Append(@, ok), !.snaps = snaps,
                    !.status = IF ok /\ tasks[t].cmd = "info" /\ tasks[t].step = 1
                               THEN cluster[tasks[t].vmid] ELSE @]
           op == Program(tk.cmd)[tk.step]
           next == AfterCall(tk, ok, extra)
       IN  /\ extra => (ok /\ tk.cmd \in {"graph", "snapshot_rollback"})
           /\ listed => (extra <=> ~SnapshotExists(snaps, tk.name))
           /\ ~listed => snaps = {}
           /\ SetTask(t, next)
           /\ cluster' = IF ~ok THEN cluster
                         ELSE IF tk.cmd = "create"
                              THEN [cluster EXCEPT ![tk.newid] = "stopped"]
                              ELSE Effect(cluster, op, tk.vmid)
           /\ file' = IF ok /\ op = "delete" /\ file.kind = "list"
                      THEN FileList(RemoveFirst(Stored(file), tk.vmid)) ELSE file
           /\ view' = IF next.reply \in {"prompt", "panel"}
                      THEN [view EXCEPT ![t] = "active"] ELSE view
  /\ UNCHANGED <<configVars, startupVars, renderVars, resolverVars, fRun, cbs, mon>>

\* the call a handler waits for returns
CallReturn(t) ==
  /\ tasks[t].pc = "call"
  /\ \E ok \in CallOutcomes(tasks[t]), extra \in BOOLEAN, snaps \in SUBSET SnapNames :
       LET listed == ok /\ tasks[t].cmd = "snapshot_rollback"
           tk == [tasks[t] EXCEPT
                    !.results = Append(@, ok), !.snaps = snaps,
                    !.status = IF ok /\ tasks[t].cmd = "info" /\ tasks[t].step = 1
                               THEN cluster[tasks[t].vmid] ELSE @]
           op == Program(tk.cmd)[tk.step]
           next == AfterCall(tk, ok, extra)
       IN  /\ extra => (ok /\ tk.cmd \in {"graph", "snapshot_rollback"})
           /\ listed => (extra <=> ~SnapshotExists(snaps, tk.name))
           /\ ~listed => snaps = {}
           /\ SetTask(t, next)
           /\ cluster' = IF ~ok THEN cluster
                         ELSE IF tk.cmd = "create"
                              THEN [cluster EXCEPT ![tk.newid] = "stopped"]
                              ELSE Effect(cluster, op, tk.vmid)
           /\ view' = IF next.reply \in {"prompt", "panel"}
                      THEN [view EXCEPT ![t] = "active"] ELSE view
  /\ UNCHANGED <<configVars, startupVars, renderVars, resolverVars, fRun, file, cbs, mon>>

\* delete: asyncio.sleep(2) is over, the delete call is issued
DeleteSleep(t) ==
  /\ tasks[t].pc = "sleep"
  /\ SetTask(t, IssueNext(tasks[t]))
  /\ UNCHANGED <<configVars, startupVars, renderVars, resolverVars, fRun, cluster, file, promptVars, mon>>

\* a stop that asks nothing: the gate, then the stop call
StopAtOnce(t) ==
  /\ tasks[t].pc = "idle"
  /\ \E vmid \in Ids, cat \in Cats :
       LET tk == Begin("stop", vmid, 0, None, cat)
       IN  SetTask(t, IF CheckAccess(cat) # None THEN Reply(tk, CheckAccess(cat))
                      ELSE Reply(Logged(tk, Call("status.stop.post", NodeOf(vmid),
                                                 KindOf(vmid), vmid)), "ok"))
  /\ UNCHANGED <<configVars, startupVars, renderVars, resolverVars, fRun, cluster, file, promptVars, mon>>

\* stop: the gate, then the prompt with the two buttons; no call yet
Stop(t) ==
  /\ tasks[t].pc = "idle"
  /\ \E vmid \in Ids, cat \in Cats :
       LET tk == Begin("stop", vmid, 0, None, cat)
           denied == CheckAccess(cat) # None
       IN  /\ SetTask(t, IF denied THEN Reply(tk, CheckAccess(cat))
                         ELSE Reply(tk, "prompt"))
           /\ view' = IF denied THEN view ELSE [view EXCEPT ![t] = "active"]
  /\ UNCHANGED <<configVars, startupVars, renderVars, resolverVars, fRun, cluster, file, cbs, mon>>

\* list: the gate, then defer
ListVms(t) ==
  /\ tasks[t].pc = "idle"
  /\ \E cat \in Cats :
       LET tk == Begin("list", 0, 0, None, cat)
       IN  SetTask(t, IF CheckAccess(cat) # None
                      THEN Reply(tk, CheckAccess(cat))
                      ELSE [tk EXCEPT !.pc = "listfetch"])
  /\ UNCHANGED <<configVars, startupVars, renderVars, resolverVars, fRun, cluster, file, promptVars, mon>>

\* the entries {int(r['vmid']): r for r in resources} keeps under vmid: the
\* last one of the listing with that id, if any
ResourceMapGet(l, vmid) ==
  LET hits == {k \in 1..Len(l) : PyInt(l[k].vmid) = vmid}
  IN  {l[k] : k \in {i \in hits : \A j \in hits : j <= i}}

\* one line of the watchlist listing: res = resource_map.get(vmid); if res:
\* the entry's kind and status (its name comes from the same entry), else
\* unknown/deleted
RenderLine(l, vmid) ==
  LET res == ResourceMapGet(l, vmid)
  IN  IF res = {}
      THEN [vmid |-> vmid, known |-> FALSE, type |-> None, status |-> None]
      ELSE LET r == CHOOSE e \in res : TRUE
           IN  [vmid |-> vmid, known |-> TRUE, type |-> r.type, status |-> r.status]

\* for vmid in current_list: lines.append(...)
RenderLines(ids, l) == [k \in 1..Len(ids) |-> RenderLine(l, ids[k])]

\* list and monitor list: the inventory call returns.  list reports a
\* failed fetch; the cog's monitor list renders with an empty map instead;
\* bptcode.py's monitor list has no try around the call, so the failure
\* leaves the handler.
ListFetch(t) ==
  /\ tasks[t].pc = "listfetch"
  /\ \E resp \in InventoryResponses(cluster) :
       LET tk == Logged(tasks[t], Call("cluster.resources.get", None, None, 0))
       IN  SetTask(t, CASE tk.cmd = "list" ->
                             IF resp.kind = "raise" THEN Reply(tk, "failed")
                             ELSE Reply(tk, "ok")
                        [] tk.cmd = "bpt_monitor_list" /\ resp.kind = "raise" ->
                             [tk EXCEPT !.pc = "raised"]
                        [] OTHER ->
                             Reply([tk EXCEPT !.lines = RenderLines(tk.cur, resp.list)],
                                   "ok"))
  /\ UNCHANGED <<configVars, startupVars, renderVars, resolverVars, fRun, cluster, file, promptVars, mon>>

\* monitor add up to its resolver call: the gate, the load, the duplicate check
MonitorAdd(t) ==
  /\ tasks[t].pc = "idle"
  /\ \E vmid \in Ids, cat \in Cats, rd \in ReadOutcomes, wr \in WriteOutcomes :
       LET tk == Begin("monitor_add", vmid, 0, None, cat)
           ld == LoadMonitorList(file, MONITOR_VM_IDS, rd, wr)
           tl == [tk EXCEPT !.calls = ld.ops, !.cur = ld.ids, !.fault = ld.fault]
       IN  IF CheckAccess(cat) # None
           THEN SetTask(t, Reply(tk, CheckAccess(cat))) /\ file' = file
           ELSE /\ file' = ld.file
                /\ SetTask(t, IF InList(ld.ids, vmid) THEN Reply(tl, "already")
                              ELSE [tl EXCEPT !.pc = "addresolve"])
  /\ UNCHANGED <<configVars, startupVars, renderVars, resolverVars, fRun, cluster, promptVars, mon>>

\* a monitor add that takes an id the resolver did not find
AddUnresolvedNever(r) == FALSE

\* monitor add: if not node
AddUnresolved(r) == r.node = None

\* a monitor add that loads the list again when the resolver has returned
MonitorAddResolveReload(t) ==
  /\ tasks[t].pc = "addresolve"
  /\ \E resp \in InventoryResponses(cluster), wr \in WriteOutcomes :
       LET tk == Logged(tasks[t], Call("cluster.resources.get", None, None, 0))
           r == GetDeviceNodeAndType(resp, IntId(tk.vmid))
           now == IF file.kind = "list" THEN Stored(file) ELSE <<>>
           new == IF InList(now, tk.vmid) THEN now ELSE Append(now, tk.vmid)
       IN  IF AddUnresolved(r)
           THEN SetTask(t, Reply(tk, "not_found")) /\ file' = file
           ELSE /\ file' = SaveMonitorList(file, new, wr)
                /\ SetTask(t, Reply([Logged(tk, Call("file.write", None, None, 0))
                                       EXCEPT !.cur = new, !.node = r.node,
                                              !.type = r.type,
                                              !.fault = IF wr = "ok" THEN @ ELSE wr],
                                    "added"))
  /\ UNCHANGED <<configVars, startupVars, renderVars, resolverVars, fRun, cluster, promptVars, mon>>

\* monitor add: the resolver returns; not found, or append and save
MonitorAddResolve(t) ==
  /\ tasks[t].pc = "addresolve"
  /\ \E resp \in InventoryResponses(cluster), wr \in WriteOutcomes :
       LET tk == Logged(tasks[t], Call("cluster.resources.get", None, None, 0))
           r == GetDeviceNodeAndType(resp, IntId(tk.vmid))
           new == Append(tk.cur, tk.vmid)
       IN  IF AddUnresolved(r)
           THEN SetTask(t, Reply(tk, "not_found")) /\ file' = file
           ELSE /\ file' = SaveMonitorList(file, new, wr)
                /\ SetTask(t, Reply([Logged(tk, Call("file.write", None, None, 0))
                                       EXCEPT !.cur = new, !.node = r.node,
                                              !.type = r.type,
                                              !.fault = IF wr = "ok" THEN @ ELSE wr],
                                    "added"))
  /\ UNCHANGED <<configVars, startupVars, renderVars, resolverVars, fRun, cluster, promptVars, mon>>

\* a monitor remove that is suspended between its load and its save
MonitorRemoveSuspended(t) ==
  \/ /\ tasks[t].pc = "idle"
     /\ \E vmid \in Ids, rd \in ReadOutcomes, wr \in WriteOutcomes :
          LET tk == Begin("monitor_remove", vmid, 0, None, ALLOWED_CATEGORY_ID)
              ld == LoadMonitorList(file, MONITOR_VM_IDS, rd, wr)
              tl == [tk EXCEPT !.calls = ld.ops, !.cur = ld.ids, !.fault = ld.fault]
          IN  /\ file' = ld.file
              /\ SetTask(t, IF ~InList(ld.ids, vmid) THEN Reply(tl, "not_monitored")
                            ELSE [tl EXCEPT !.pc = "removesave"])
     /\ UNCHANGED <<configVars, startupVars, renderVars, resolverVars, fRun, cluster, promptVars, mon>>
  \/ /\ tasks[t].pc = "removesave"
     /\ \E wr2 \in WriteOutcomes :
          LET new == RemoveFirst(tasks[t].cur, tasks[t].vmid)
          IN  /\ file' = SaveMonitorList(file, new, wr2)
              /\ SetTask(t, Reply([Logged(tasks[t], Call("file.write", None, None, 0))
                                     EXCEPT !.cur = new,
                                            !.fault = IF wr2 = "ok" THEN @ ELSE wr2],
                                  "removed"))
     /\ UNCHANGED <<configVars, startupVars, renderVars, resolverVars, fRun, cluster, promptVars, mon>>

\* monitor remove: the gate, the load, the membership check, remove and save
MonitorRemove(t) ==
  /\ tasks[t].pc = "idle"
  /\ \E vmid \in Ids, cat \in Cats, rd \in ReadOutcomes, wr \in WriteOutcomes,
        wr2 \in WriteOutcomes :
       LET tk == Begin("monitor_remove", vmid, 0, None, cat)
           ld == LoadMonitorList(file, MONITOR_VM_IDS, rd, wr)
           tl == [tk EXCEPT !.calls = ld.ops, !.cur = ld.ids, !.fault = ld.fault]
           new == RemoveFirst(ld.ids, vmid)
       IN  IF CheckAccess(cat) # None
           THEN SetTask(t, Reply(tk, CheckAccess(cat))) /\ file' = file
           ELSE IF ~InList(ld.ids, vmid)
           THEN SetTask(t, Reply(tl, "not_monitored")) /\ file' = ld.file
           ELSE /\ file' = SaveMonitorList(ld.file, new, wr2)
                /\ SetTask(t, Reply([Logged(tl, Call("file.write", None, None, 0))
                                       EXCEPT !.cur = new,
                                              !.fault = IF wr2 = "ok" THEN @ ELSE wr2],
                                    "removed"))
  /\ UNCHANGED <<configVars, startupVars, renderVars, resolverVars, fRun, cluster, promptVars, mon>>

\* monitor list up to its inventory call: the gate, the load, the empty check
MonitorListCmd(t) ==
  /\ tasks[t].pc = "idle"
  /\ \E cat \in Cats, rd \in ReadOutcomes, wr \in WriteOutcomes :
       LET tk == Begin("monitor_list", 0, 0, None, cat)
           ld == LoadMonitorList(file, MONITOR_VM_IDS, rd, wr)
           tl == [tk EXCEPT !.calls = ld.ops, !.cur = ld.ids, !.fault = ld.fault]
       IN  IF CheckAccess(cat) # None
           THEN SetTask(t, Reply(tk, CheckAccess(cat))) /\ file' = file
           ELSE /\ file' = ld.file
                /\ SetTask(t, IF ld.ids = <<>> THEN Reply(tl, "empty")
                              ELSE [tl EXCEPT !.pc = "listfetch"])
  /\ UNCHANGED <<configVars, startupVars, renderVars, resolverVars, fRun, cluster, promptVars, mon>>

\* bptcode.py's monitor list up to its inventory call
BptMonitorListCmd(t) ==
  /\ tasks[t].pc = "idle"
  /\ \E cat \in Cats, rd \in ReadOutcomes, wr \in WriteOutcomes :
       LET tk == Begin("bpt_monitor_list", 0, 0, None, cat)
           ld == BptLoadMonitorList(file, MONITOR_VM_IDS, rd, wr)
           tl == [tk EXCEPT !.calls = ld.ops, !.cur = ld.ids, !.fault = ld.fault]
       IN  IF CheckAccess(cat) # None
           THEN SetTask(t, Reply(tk, CheckAccess(cat))) /\ file' = file
           ELSE /\ file' = ld.file
                /\ SetTask(t, IF ld.raised THEN [tl EXCEPT !.pc = "raised"]
                              ELSE IF ld.ids = <<>> THEN Reply(tl, "empty")
                              ELSE [tl EXCEPT !.pc = "listfetch"])
  /\ UNCHANGED <<configVars, startupVars, renderVars, resolverVars, fRun, cluster, promptVars, mon>>

\* The cluster changes under the program: another operator, another
\* invocation or the machine itself starts, stops, pauses, deletes or
\* creates a machine.
EnvChange ==
  /\ \E id \in Ids, st \in MachineStates :
       /\ cluster[id] # st
       /\ cluster' = [cluster EXCEPT ![id] = st]
  /\ UNCHANGED <<configVars, startupVars, renderVars, resolverVars, fRun, file, tasks, promptVars, mon>>

(***************************************************************************)
(* The confirmation prompts: SnapshotRollbackView, and the view the stop   *)
(* command builds.  A press of a button of a view that is neither stopped  *)
(* nor timed out starts that button's callback as a task of its own; a     *)
(* stopped or timed-out view dispatches nothing.                           *)
(***************************************************************************)
NewCallback(kind) == [kind |-> kind, pc |-> "defer", calls |-> <<>>, reply |-> "none"]

SetCb(t, i, cb) == cbs' = [cbs EXCEPT ![t][i] = cb]

\* a confirm button that still answers when its view is over
ClickConfirmLate(t) ==
  /\ view[t] # "none"
  /\ tasks[t].cmd \in {"stop", "snapshot_rollback"}
  /\ Len(cbs[t]) < MaxClicks
  /\ cbs' = [cbs EXCEPT ![t] = Append(@, NewCallback("confirm"))]
  /\ UNCHANGED <<configVars, startupVars, renderVars, resolverVars, fRun, cluster, file, tasks, view, mon>>

\* a press of the confirm button
ClickConfirm(t) ==
  /\ view[t] = "active"
  /\ tasks[t].cmd \in {"stop", "snapshot_rollback"}
  /\ Len(cbs[t]) < MaxClicks
  /\ cbs' = [cbs EXCEPT ![t] = Append(@, NewCallback("confirm"))]
  /\ UNCHANGED <<configVars, startupVars, renderVars, resolverVars, fRun, cluster, file, tasks, view, mon>>

\* a press of the cancel button; the callback starts at its send_message
ClickCancel(t) ==
  /\ view[t] = "active"
  /\ tasks[t].cmd \in {"stop", "snapshot_rollback"}
  /\ Len(cbs[t]) < MaxClicks
  /\ cbs' = [cbs EXCEPT ![t] = Append(@, NewCallback("cancel"))]
  /\ UNCHANGED <<configVars, startupVars, renderVars, resolverVars, fRun, cluster, file, tasks, view, mon>>

\* the view's timeout passes with the view still active (60 s for rollback,
\* 180 s for the info panel, the library's 180 s for stop)
ViewTimeout(t) ==
  /\ view[t] = "active"
  /\ view' = [view EXCEPT ![t] = "timedout"]
  /\ UNCHANGED <<configVars, startupVars, renderVars, resolverVars, fRun, cluster, file, tasks, cbs, mon>>

\* SnapshotRollbackView.confirm after defer: the rollback call is issued on
\* the resource the command resolved
RollbackConfirmIssue(t, i) ==
  /\ tasks[t].cmd = "snapshot_rollback"
  /\ cbs[t][i].kind = "confirm" /\ cbs[t][i].pc = "defer"
  /\ SetCb(t, i, [cbs[t][i] EXCEPT
                    !.pc = "call",
                    !.calls = Append(@, Call("snapshot.rollback.post", tasks[t].node,
                                             tasks[t].type, tasks[t].vmid))])
  /\ UNCHANGED <<configVars, startupVars, renderVars, resolverVars, fRun, cluster, file, tasks, view, mon>>

\* SnapshotRollbackView.confirm: the rollback call returns; on success the
\* completion message is sent next, on failure the failure message ends it
RollbackConfirmReturn(t, i) ==
  /\ tasks[t].cmd = "snapshot_rollback"
  /\ cbs[t][i].kind = "confirm" /\ cbs[t][i].pc = "call"
  /\ \E ok \in Outcomes(cluster, tasks[t].vmid) :
       SetCb(t, i, IF ok THEN [cbs[t][i] EXCEPT !.pc = "sent"]
                   ELSE [cbs[t][i] EXCEPT !.pc = "done", !.reply = "failed"])
  /\ UNCHANGED <<configVars, startupVars, renderVars, resolverVars, fRun, cluster, file, tasks, view, mon>>

\* a confirm that leaves its view running after the rollback
RollbackConfirmNoStop(t, i) ==
  /\ tasks[t].cmd = "snapshot_rollback"
  /\ cbs[t][i].kind = "confirm" /\ cbs[t][i].pc = "sent"
  /\ SetCb(t, i, [cbs[t][i] EXCEPT !.pc = "done", !.reply = "ok"])
  /\ UNCHANGED <<configVars, startupVars, renderVars, resolverVars, fRun, cluster, file, tasks, view, mon>>

\* SnapshotRollbackView.confirm: the message is out; value = True, stop()
RollbackConfirmStop(t, i) ==
  /\ tasks[t].cmd = "snapshot_rollback"
  /\ cbs[t][i].kind = "confirm" /\ cbs[t][i].pc = "sent"
  /\ SetCb(t, i, [cbs[t][i] EXCEPT !.pc = "done", !.reply = "ok"])
  /\ view' = [view EXCEPT ![t] = IF @ = "active" THEN "stopped" ELSE @]
  /\ UNCHANGED <<configVars, startupVars, renderVars, resolverVars, fRun, cluster, file, tasks, mon>>

\* SnapshotRollbackView.cancel: the message is out; value = False, stop()
RollbackCancel(t, i) ==
  /\ tasks[t].cmd = "snapshot_rollback"
  /\ cbs[t][i].kind = "cancel" /\ cbs[t][i].pc = "defer"
  /\ SetCb(t, i, [cbs[t][i] EXCEPT !.pc = "done", !.reply = "cancelled"])
  /\ view' = [view EXCEPT ![t] = IF @ = "active" THEN "stopped" ELSE @]
  /\ UNCHANGED <<configVars, startupVars, renderVars, resolverVars, fRun, cluster, file, tasks, mon>>

\* stop's confirm_callback after defer: the resolver is called
StopConfirmDefer(t, i) ==
  /\ tasks[t].cmd = "stop"
  /\ cbs[t][i].kind = "confirm" /\ cbs[t][i].pc = "defer"
  /\ SetCb(t, i, [cbs[t][i] EXCEPT !.pc = "resolve"])
  /\ UNCHANGED <<configVars, startupVars, renderVars, resolverVars, fRun, cluster, file, tasks, view, mon>>

\* stop's confirm_callback: the resolver returns; not found, or the stop
\* call is issued
StopConfirmResolve(t, i) ==
  /\ tasks[t].cmd = "stop"
  /\ cbs[t][i].kind = "confirm" /\ cbs[t][i].pc = "resolve"
  /\ \E resp \in InventoryResponses(cluster) :
       LET cb == [cbs[t][i] EXCEPT
                    !.calls = Append(@, Call("cluster.resources.get", None, None, 0))]
           r == GetDeviceNodeAndType(resp, IntId(tasks[t].vmid))
       IN  SetCb(t, i, IF Unresolved(r)
                       THEN [cb EXCEPT !.pc = "done", !.reply = "not_found"]
                       ELSE [cb EXCEPT
                               !.pc = "call",
                               !.calls = Append(@, Call("status.stop.post", r.node,
                                                        r.type, tasks[t].vmid))])
  /\ UNCHANGED <<configVars, startupVars, renderVars, resolverVars, fRun, cluster, file, tasks, view, mon>>

\* stop's confirm_callback: the stop call returns; the view is left as it is
StopConfirmReturn(t, i) ==
  /\ tasks[t].cmd = "stop"
  /\ cbs[t][i].kind = "confirm" /\ cbs[t][i].pc = "call"
  /\ \E ok \in Outcomes(cluster, tasks[t].vmid) :
       /\ SetCb(t, i, [cbs[t][i] EXCEPT !.pc = "done",
                                        !.reply = IF ok THEN "ok" ELSE "failed"])
       /\ cluster' = IF ok THEN Effect(cluster, "status.stop.post", tasks[t].vmid)
                     ELSE cluster
  /\ UNCHANGED <<configVars, startupVars, renderVars, resolverVars, fRun, file, tasks, view, mon>>

\* stop's cancel_callback: the message, and nothing else
StopCancel(t, i) ==
  /\ tasks[t].cmd = "stop"
  /\ cbs[t][i].kind = "cancel" /\ cbs[t][i].pc = "defer"
  /\ SetCb(t, i, [cbs[t][i] EXCEPT !.pc = "done", !.reply = "cancelled"])
  /\ UNCHANGED <<configVars, startupVars, renderVars, resolverVars, fRun, cluster, file, tasks, view, mon>>

(***************************************************************************)
(* The control panel of info: VMControlView.  Its three buttons run        *)
(* common_action on the node and kind the view was built with.             *)
(***************************************************************************)
\* the call behind each button
PanelOp(action) ==
  CASE action = "start" -> "status.start.post"
    [] action = "reboot" -> "status.reboot.post"
    [] OTHER -> "status.shutdown.post"

\* the buttons the view is built with enabled: Start unless the machine was
\* running, Reboot and Shutdown only if it was
PanelButtons(status) ==
  IF status = "running" THEN {"reboot", "shutdown"} ELSE {"start"}

\* a press of one of the enabled buttons
ClickPanel(t) ==
  /\ view[t] = "active"
  /\ tasks[t].cmd = "info"
  /\ Len(cbs[t]) < MaxClicks
  /\ \E action \in PanelButtons(tasks[t].status) :
       cbs' = [cbs EXCEPT ![t] = Append(@, NewCallback(action))]
  /\ UNCHANGED <<configVars, startupVars, renderVars, resolverVars, fRun, cluster, file, tasks, view, mon>>

\* common_action after defer: the call is issued on self.node, self.vm_type
PanelIssue(t, i) ==
  /\ tasks[t].cmd = "info"
  /\ cbs[t][i].pc = "defer"
  /\ SetCb(t, i, [cbs[t][i] EXCEPT
                    !.pc = "call",
                    !.calls = Append(@, Call(PanelOp(cbs[t][i].kind), tasks[t].node,
                                             tasks[t].type, tasks[t].vmid))])
  /\ UNCHANGED <<configVars, startupVars, renderVars, resolverVars, fRun, cluster, file, tasks, view, mon>>

\* common_action: the call returns; on success the message is sent next, on
\* failure the failure message ends the callback
PanelReturn(t, i) ==
  /\ tasks[t].cmd = "info"
  /\ cbs[t][i].pc = "call"
  /\ \E ok \in Outcomes(cluster, tasks[t].vmid) :
       /\ SetCb(t, i, IF ok THEN [cbs[t][i] EXCEPT !.pc = "sent"]
                      ELSE [cbs[t][i] EXCEPT !.pc = "done", !.reply = "failed"])
       /\ cluster' = IF ok THEN Effect(cluster, PanelOp(cbs[t][i].kind), tasks[t].vmid)
                     ELSE cluster
  /\ UNCHANGED <<configVars, startupVars, renderVars, resolverVars, fRun, file, tasks, view, mon>>

\* common_action: the message is out; every button is disabled and the
\* panel message edited
PanelDisable(t, i) ==
  /\ tasks[t].cmd = "info"
  /\ cbs[t][i].pc = "sent"
  /\ SetCb(t, i, [cbs[t][i] EXCEPT !.pc = "done", !.reply = "ok"])
  /\ view' = [view EXCEPT ![t] = IF @ = "active" THEN "disabled" ELSE @]
  /\ UNCHANGED <<configVars, startupVars, renderVars, resolverVars, fRun, cluster, file, tasks, mon>>

(***************************************************************************)
(* The command dispatcher: one invocation of any command, with the prompt  *)
(* it presents, against a cluster that changes under it.                   *)
(***************************************************************************)
\* the watchlist files the program leaves behind: none, or a list without
\* duplicates
WatchLists == {l \in ListsUpTo(Ids, MaxId) : \A i, j \in 1..Len(l) : l[i] = l[j] => i = j}

Init ==
  /\ rResp = RespRaise /\ rArg = IntId(1) /\ rOut = NotFound /\ rPc = "off"
  /\ fRun = NoFileRun
  /\ ALLOWED_CATEGORY_ID = "admin"
  /\ cluster \in [Ids -> MachineStates]
  /\ file \in {FileAbsent, FileCorrupt} \cup {FileList(l) : l \in WatchLists}
  /\ tasks = [t \in Tasks |-> IF t = 1 THEN IdleTask ELSE OffTask]
  /\ view = [t \in Tasks |-> "none"]
  /\ cbs = [t \in Tasks |-> <<>>]
  /\ mon = MonIdle
  /\ uptime = NoUptime /\ listing = NoListing
  /\ boot = Started

Next ==
  \/ \E t \in Tasks : InvokeTargeted(t)
  \/ \E t \in Tasks : Resolve(t)
  \/ \E t \in Tasks : Create(t)
  \/ \E t \in Tasks : CallReturn(t)
  \/ \E t \in Tasks : DeleteSleep(t)
  \/ \E t \in Tasks : Stop(t)
  \/ \E t \in Tasks : ListVms(t)
  \/ \E t \in Tasks : ListFetch(t)
  \/ \E t \in Tasks : MonitorAdd(t)
  \/ \E t \in Tasks : MonitorAddResolve(t)
  \/ \E t \in Tasks : MonitorRemove(t)
  \/ \E t \in Tasks : MonitorListCmd(t)
  \/ \E t \in Tasks : BptMonitorListCmd(t)
  \/ \E t \in Tasks : ClickConfirm(t)
  \/ \E t \in Tasks : ClickCancel(t)
  \/ \E t \in Tasks : ViewTimeout(t)
  \/ \E t \in Tasks, i \in 1..MaxClicks : i <= Len(cbs[t]) /\ RollbackConfirmIssue(t, i)
  \/ \E t \in Tasks, i \in 1..MaxClicks : i <= Len(cbs[t]) /\ RollbackConfirmReturn(t, i)
  \/ \E t \in Tasks, i \in 1..MaxClicks : i <= Len(cbs[t]) /\ RollbackConfirmStop(t, i)
  \/ \E t \in Tasks, i \in 1..MaxClicks : i <= Len(cbs[t]) /\ RollbackCancel(t, i)
  \/ \E t \in Tasks, i \in 1..MaxClicks : i <= Len(cbs[t]) /\ StopConfirmDefer(t, i)
  \/ \E t \in Tasks, i \in 1..MaxClicks : i <= Len(cbs[t]) /\ StopConfirmResolve(t, i)
  \/ \E t \in Tasks, i \in 1..MaxClicks : i <= Len(cbs[t]) /\ StopConfirmReturn(t, i)
  \/ \E t \in Tasks, i \in 1..MaxClicks : i <= Len(cbs[t]) /\ StopCancel(t, i)
  \/ \E t \in Tasks : ClickPanel(t)
  \/ \E t \in Tasks, i \in 1..MaxClicks : i <= Len(cbs[t]) /\ PanelIssue(t, i)
  \/ \E t \in Tasks, i \in 1..MaxClicks : i <= Len(cbs[t]) /\ PanelReturn(t, i)
  \/ \E t \in Tasks, i \in 1..MaxClicks : i <= Len(cbs[t]) /\ PanelDisable(t, i)
  \/ EnvChange

Spec == Init /\ [][Next]_vars

(***************************************************************************)
(* The monitor loop as actions: one step from each await to the next.      *)
(***************************************************************************)
\* a tick that loads the watchlist before it looks for its channel
TickStartLoadFirst ==
  /\ mon.pc = "wait"
  /\ BeforeMonitor(mon)
  /\ mon.ticks < MaxTicks
  /\ \E channel \in BOOLEAN, rd \in ReadOutcomes, wr \in WriteOutcomes :
       LET ld == LoadMonitorList(file, MONITOR_VM_IDS, rd, wr)
           m == [MonIdle EXCEPT
                   !.ticks = mon.ticks + 1, !.ready = mon.ready,
                   !.alerted = mon.alerted \cup
                                 {mon.log[k].vmid : k \in {j \in 1..Len(mon.log) :
                                                            mon.log[j].alerts = 1}}]
       IN  IF ~channel
           THEN mon' = m /\ file' = ld.file
           ELSE /\ file' = ld.file
                /\ mon' = IF ld.ids = <<>> THEN [m EXCEPT !.ran = TRUE]
                          ELSE [m EXCEPT !.ran = TRUE, !.ids = ld.ids, !.i = 1,
                                         !.pc = "resolve"]
  /\ UNCHANGED <<configVars, startupVars, renderVars, resolverVars, fRun, cluster, tasks, promptVars>>

\* A tick begins: the alert channel is looked up, and without it the tick
\* returns; else the watchlist is loaded and the loop entered.
TickStart ==
  /\ mon.pc = "wait"
  /\ BeforeMonitor(mon)
  /\ mon.ticks < MaxTicks
  /\ \E channel \in BOOLEAN, rd \in ReadOutcomes, wr \in WriteOutcomes :
       LET ld == LoadMonitorList(file, MONITOR_VM_IDS, rd, wr)
           m == [MonIdle EXCEPT
                   !.ticks = mon.ticks + 1, !.ready = mon.ready,
                   !.alerted = mon.alerted \cup
                                 {mon.log[k].vmid : k \in {j \in 1..Len(mon.log) :
                                                            mon.log[j].alerts = 1}}]
       IN  IF ~channel
           THEN mon' = m /\ file' = file
           ELSE /\ file' = ld.file
                /\ mon' = IF ld.ids = <<>> THEN [m EXCEPT !.ran = TRUE]
                          ELSE [m EXCEPT !.ran = TRUE, !.ids = ld.ids, !.i = 1,
                                         !.pc = "resolve"]
  /\ UNCHANGED <<configVars, startupVars, renderVars, resolverVars, fRun, cluster, tasks, promptVars>>

\* a tick that drops from the file an id the resolver does not find
TickResolvePrune ==
  /\ mon.pc = "resolve"
  /\ \E resp \in InventoryResponses(cluster) :
       LET vmid == mon.ids[mon.i]
           r == GetDeviceNodeAndType(resp, IntId(vmid))
       IN  /\ mon' = IF Unresolved(r)
                     THEN NextEntry(mon, EntryLog(vmid, FALSE, 0, None, 0, 0, "none"))
                     ELSE [mon EXCEPT !.pc = "fetch", !.node = r.node, !.type = r.type]
           /\ file' = IF Unresolved(r) /\ file.kind = "list"
                      THEN FileList(RemoveFirst(Stored(file), vmid)) ELSE file
  /\ UNCHANGED <<configVars, startupVars, renderVars, resolverVars, fRun, cluster, tasks, promptVars>>

\* the resolver returns for the entry: continue, or issue the status call
TickResolve ==
  /\ mon.pc = "resolve"
  /\ \E resp \in InventoryResponses(cluster) :
       LET vmid == mon.ids[mon.i]
           r == GetDeviceNodeAndType(resp, IntId(vmid))
       IN  mon' = IF Unresolved(r)
                  THEN NextEntry(mon, EntryLog(vmid, FALSE, 0, None, 0, 0, "none"))
                  ELSE [mon EXCEPT !.pc = "fetch", !.node = r.node, !.type = r.type]
  /\ UNCHANGED <<configVars, startupVars, renderVars, resolverVars, fRun, cluster, file, tasks, promptVars>>

\* a loop that alerts for a machine once only
TickFetchDedup ==
  /\ mon.pc = "fetch"
  /\ LET vmid == mon.ids[mon.i]
     IN  \E ok \in (IF mon.node = None \/ mon.type = None THEN {FALSE}
                    ELSE Outcomes(cluster, vmid)) :
           mon' = IF ~ok
                  THEN OnEntryError(mon, EntryLog(vmid, mon.node # None, 1, None, 0, 0, "fetch"))
                  ELSE IF IsStopped(cluster[vmid]) /\ vmid \notin mon.alerted
                  THEN [mon EXCEPT !.pc = "send", !.st = cluster[vmid]]
                  ELSE NextEntry(mon, EntryLog(vmid, TRUE, 1, cluster[vmid], 0, 0, "none"))
  /\ UNCHANGED <<configVars, startupVars, renderVars, resolverVars, fRun, cluster, file, tasks, promptVars>>

\* the bot reports readiness: wait_until_ready returns
BotReady ==
  /\ ~mon.ready
  /\ mon' = [mon EXCEPT !.ready = TRUE]
  /\ UNCHANGED <<configVars, startupVars, renderVars, resolverVars, fRun, cluster, file, tasks, promptVars>>

\* the status call returns: a failure is caught; a stopped machine gets its
\* alert sent next; any other state ends the entry
TickFetch ==
  /\ mon.pc = "fetch"
  /\ LET vmid == mon.ids[mon.i]
     IN  \E ok \in (IF mon.node = None \/ mon.type = None THEN {FALSE}
                    ELSE Outcomes(cluster, vmid)) :
           mon' = IF ~ok
                  THEN OnEntryError(mon, EntryLog(vmid, mon.node # None, 1, None, 0, 0, "fetch"))
                  ELSE IF IsStopped(cluster[vmid])
                  THEN [mon EXCEPT !.pc = "send", !.st = cluster[vmid]]
                  ELSE NextEntry(mon, EntryLog(vmid, TRUE, 1, cluster[vmid], 0, 0, "none"))
  /\ UNCHANGED <<configVars, startupVars, renderVars, resolverVars, fRun, cluster, file, tasks, promptVars>>

\* channel.send returns: the alert is out, or the failure is caught
TickSend ==
  /\ mon.pc = "send"
  /\ LET vmid == mon.ids[mon.i]
     IN  \E ok \in BOOLEAN :
           mon' = IF ok
                  THEN NextEntry(mon, EntryLog(vmid, TRUE, 1, mon.st, 1, 1, "none"))
                  ELSE OnEntryError(mon, EntryLog(vmid, TRUE, 1, mon.st, 1, 0, "send"))
  /\ UNCHANGED <<configVars, startupVars, renderVars, resolverVars, fRun, cluster, file, tasks, promptVars>>

InitMonitor ==
  /\ rResp = RespRaise /\ rArg = IntId(1) /\ rOut = NotFound /\ rPc = "off"
  /\ fRun = NoFileRun
  /\ ALLOWED_CATEGORY_ID = "admin"
  /\ cluster \in [Ids -> MachineStates]
  /\ file \in {FileAbsent, FileCorrupt} \cup {FileList(l) : l \in WatchLists}
  /\ tasks = [t \in Tasks |-> OffTask]
  /\ view = [t \in Tasks |-> "none"]
  /\ cbs = [t \in Tasks |-> <<>>]
  /\ mon = MonIdle
  /\ uptime = NoUptime /\ listing = NoListing
  /\ boot = Started

NextMonitor ==
  \/ BotReady
  \/ TickStart
  \/ TickResolve
  \/ TickFetch
  \/ TickSend
  \/ EnvChange

SpecMonitor == InitMonitor /\ [][NextMonitor]_vars

(***************************************************************************)
(* Properties of the monitor loop, under SpecMonitor.                      *)
(***************************************************************************)
\* the last tick ran its loop to the end
TickOver == mon.pc = "wait" /\ mon.ran

\* C5: in every tick, an entry that resolves and whose fetched power state is
\* exactly "stopped" gets exactly one alert sent (one channel.send call), and
\* an entry whose fetched state is "running" or anything else gets none.
C5_AlertIffStopped ==
  \A k \in 1..Len(mon.log) :
     LET e == mon.log[k]
     IN  (e.resolved /\ e.fetched # None) =>
            /\ e.vmid = mon.ids[k]
            /\ (e.fetched = "stopped" => e.sends = 1 /\ e.alerts <= 1)
            /\ (e.fetched # "stopped" => e.sends = 0 /\ e.alerts = 0)

\* a tick over a stopped machine, alerted once, and a paused one, not alerted
C5_Witness ==
  /\ TickOver /\ Len(mon.log) = 2
  /\ mon.log[1].fetched = "stopped" /\ mon.log[1].sends = 1 /\ mon.log[1].alerts = 1
  /\ mon.log[2].fetched = "paused" /\ mon.log[2].sends = 0

\* C6: a failure at one entry (the resolver failing, the status call failing,
\* the alert send failing) does not end the tick: when the tick is over every
\* entry of the loaded list has been through the resolver, every resolved one
\* has had its status call, and every one fetched as stopped its alert send.
C6_FailureDoesNotAbortTick ==
  TickOver =>
     /\ Len(mon.log) = Len(mon.ids)
     /\ \A k \in 1..Len(mon.log) :
          /\ mon.log[k].vmid = mon.ids[k]
          /\ (mon.log[k].resolved => mon.log[k].fetches = 1)
          /\ (mon.log[k].fetched = "stopped" => mon.log[k].sends = 1)

\* the first entry's status call failed and the second, stopped, was alerted
C6_Witness ==
  /\ TickOver /\ Len(mon.log) = 2
  /\ mon.log[1].err = "fetch"
  /\ mon.log[2].fetched = "stopped" /\ mon.log[2].alerts = 1

\* C7: an entry that does not resolve gets no status call and no alert, and
\* raises nothing: the loop goes on to the next entry.
C7_UnresolvedSkipped ==
  /\ \A k \in 1..Len(mon.log) :
       ~mon.log[k].resolved =>
          /\ mon.log[k].fetches = 0 /\ mon.log[k].fetched = None
          /\ mon.log[k].sends = 0 /\ mon.log[k].alerts = 0
          /\ mon.log[k].err = "none"
  /\ (mon.pc \in {"fetch", "send"} => mon.node # None /\ mon.type # None)

\* a watched id whose machine is gone is passed over, and the entry after it
\* is still resolved
C7_Witness ==
  /\ TickOver /\ Len(mon.log) = 2
  /\ ~mon.log[1].resolved /\ mon.log[1].fetches = 0
  /\ mon.log[2].resolved

(***************************************************************************)
(* Properties of the command handlers and the prompts, under Spec.         *)
(***************************************************************************)
\* the handler of slot t has been entered
Invoked(t) == tasks[t].pc \notin {"idle", "off"}

\* the calls of a log that target one machine
PerMachine(calls) ==
  {k \in 1..Len(calls) :
     calls[k].op \notin {"cluster.resources.get", "file.exists", "file.read", "file.write"}}

\* C2: a command invoked from a channel whose category is not the
\* administrative one sends the denial and returns: no hypervisor call, no
\* read or write of the watchlist file, no prompt.
C2_DeniedDoesNothing ==
  \A t \in Tasks :
     (Invoked(t) /\ tasks[t].cat # ALLOWED_CATEGORY_ID) =>
        /\ tasks[t].pc = "done" /\ tasks[t].reply = "denied"
        /\ tasks[t].calls = <<>> /\ tasks[t].results = <<>>
        /\ view[t] = "none"

\* monitor add from another category: denied, and the absent watchlist file
\* is not even seeded
C2_Witness ==
  /\ tasks[1].cmd = "monitor_add" /\ tasks[1].cat = "other"
  /\ tasks[1].reply = "denied" /\ file = FileAbsent

C10_UnresolvedNoCall ==
  /\ \A t \in Tasks :
       (/\ tasks[t].cmd \in Targeted
        /\ tasks[t].pc \notin {"idle", "off", "resolve"}
        /\ tasks[t].cat = ALLOWED_CATEGORY_ID
        /\ (tasks[t].node = None \/ tasks[t].type = None)) =>
           /\ tasks[t].pc = "done" /\ tasks[t].reply = "not_found"
           /\ PerMachine(tasks[t].calls) = {}
           /\ view[t] = "none"
  /\ \A t \in Tasks : \A i \in 1..Len(cbs[t]) :
       LET cb == cbs[t][i]
       IN  (tasks[t].cmd = "stop" /\ cb.kind = "confirm") =>
              /\ \A k \in PerMachine(cb.calls) :
                   cb.calls[k].node # None /\ cb.calls[k].type # None
              /\ (cb.pc = "done" /\ PerMachine(cb.calls) = {} => cb.reply = "not_found")

\* a delete of a machine that is gone: not found, and only the inventory was
\* asked
C10_Witness ==
  /\ tasks[1].cmd = "delete" /\ tasks[1].reply = "not_found"
  /\ Len(tasks[1].calls) = 1 /\ cluster[tasks[1].vmid] = "absent"

\* the callbacks of prompt t that issued the prompt's action
Acted(c, t) ==
  {i \in 1..Len(c[t]) :
     \E k \in 1..Len(c[t][i].calls) :
        c[t][i].calls[k].op \in {"snapshot.rollback.post", "status.stop.post"}}

\* C1: whatever confirm and cancel presses a prompt receives, its action
\* (the rollback call, the stop call) is issued at most once.
C1_ActionAtMostOnce == \A t \in Tasks : Cardinality(Acted(cbs, t)) <= 1

\* C3: once a prompt has received a cancel press it is over: a confirm press
\* delivered to it after the cancel issues no hypervisor call.
C3_NoCallAfterCancel ==
  \A t \in Tasks : \A i, j \in 1..Len(cbs[t]) :
     (i < j /\ cbs[t][i].kind = "cancel" /\ cbs[t][j].kind = "confirm") =>
        cbs[t][j].calls = <<>>

(***************************************************************************)
(* The watchlist commands and the monitor loop together: every slot takes  *)
(* one invocation, the invocations and the ticks interleave at their       *)
(* awaits, and the file starts as a stored list without duplicates.        *)
(***************************************************************************)
InitWatch ==
  /\ rResp = RespRaise /\ rArg = IntId(1) /\ rOut = NotFound /\ rPc = "off"
  /\ fRun = NoFileRun
  /\ ALLOWED_CATEGORY_ID = "admin"
  /\ cluster \in [Ids -> {"stopped", "absent"}]
  /\ file \in {FileList(l) : l \in WatchLists}
  /\ tasks = [t \in Tasks |-> IdleTask]
  /\ view = [t \in Tasks |-> "none"]
  /\ cbs = [t \in Tasks |-> <<>>]
  /\ mon = MonReady
  /\ uptime = NoUptime /\ listing = NoListing
  /\ boot = Started

NextWatch ==
  \/ \E t \in Tasks : MonitorAdd(t)
  \/ \E t \in Tasks : MonitorAddResolve(t)
  \/ \E t \in Tasks : MonitorRemove(t)
  \/ TickStart
  \/ TickResolve
  \/ TickFetch
  \/ TickSend

SpecWatch == InitWatch /\ [][NextWatch]_vars

\* the accesses of a call log that write the file or ask the resolver
WritesOrResolves(calls) ==
  {k \in 1..Len(calls) : calls[k].op \in {"file.write", "cluster.resources.get"}}

\* C11: a monitor add, from the administrative category, of an id the stored
\* list holds reports "already monitored" and returns with the file as it
\* was, having written nothing and asked the resolver nothing; so does
\* every repetition of it.  (The load's read succeeds.)
C11_AddPresentIsNoOp ==
  [][\A t \in Tasks :
       (/\ tasks[t].pc = "idle" /\ tasks'[t].cmd = "monitor_add"
        /\ tasks'[t].cat = ALLOWED_CATEGORY_ID
        /\ file.kind = "list" /\ tasks'[t].vmid \in SetOf(Stored(file))
        /\ tasks'[t].fault = "none")
         => /\ tasks'[t].pc = "done" /\ tasks'[t].reply = "already"
            /\ file' = file
            /\ WritesOrResolves(tasks'[t].calls) = {}]_vars

\* two adds of one stored id have both reported "already monitored"
C11_Witness ==
  /\ file.kind = "list"
  /\ \E t, u \in Tasks :
       /\ t # u /\ tasks[t].vmid = tasks[u].vmid
       /\ tasks[t].cmd = "monitor_add" /\ tasks[t].reply = "already"
       /\ tasks[u].cmd = "monitor_add" /\ tasks[u].reply = "already"
       /\ tasks[t].vmid \in SetOf(Stored(file))

\* no id twice in the list
NoDuplicates(l) == \A i, j \in 1..Len(l) : l[i] = l[j] => i = j

\* C12: from a stored list without duplicates, whatever adds, removes and
\* ticks run and however they interleave, a stored list never holds an id
\* twice.
C12_NoDuplicateIds == file.kind = "list" => NoDuplicates(Stored(file))

\* two adds were suspended at their resolver calls together and both saved
C12_Witness ==
  /\ file.kind = "list" /\ Len(Stored(file)) = MaxId
  /\ \E t, u \in Tasks :
       /\ t # u
       /\ tasks[t].cmd = "monitor_add" /\ tasks[t].reply = "added"
       /\ tasks[u].cmd = "monitor_add" /\ tasks[u].reply = "added"
       /\ tasks[t].vmid = tasks[u].vmid

(***************************************************************************)
(* Properties of the watchlist commands, under Spec: one invocation, any   *)
(* file, any cluster.                                                      *)
(***************************************************************************)
\* the writes of the file in a call log
FileWrites(calls) == {k \in 1..Len(calls) : calls[k].op = "file.write"}

\* C13: when the resolver returns to a monitor add, an id the resolver did
\* not find (not in the inventory, or the inventory call failed) is reported
\* not found and the file is left as it is, unwritten; the file is written
\* only for an id the resolver found, and then, the write succeeding, it
\* holds the loaded list with the id appended.
C13_AddNeedsResolution ==
  [][\A t \in Tasks :
       (tasks[t].pc = "addresolve" /\ tasks'[t].pc = "done")
         => /\ tasks'[t].reply \in {"not_found", "added"}
            /\ cluster[tasks[t].vmid] = "absent" => tasks'[t].reply = "not_found"
            /\ tasks'[t].reply = "not_found"
                 => /\ tasks'[t].node = None
                    /\ file' = file
                    /\ FileWrites(tasks'[t].calls) = FileWrites(tasks[t].calls)
            /\ tasks'[t].reply = "added"
                 => /\ tasks'[t].node # None
                    /\ cluster[tasks[t].vmid] # "absent"
                    /\ tasks'[t].fault = "none"
                         => /\ file'.kind = "list"
                            /\ Stored(file') = Append(tasks[t].cur, tasks[t].vmid)]_vars

\* an add of an id that is in the inventory but whose inventory call failed
\* has reported not found; the id is not in the stored list
C13_Witness ==
  \E t \in Tasks :
    /\ tasks[t].cmd = "monitor_add" /\ tasks[t].reply = "not_found"
    /\ cluster[tasks[t].vmid] # "absent"
    /\ file.kind = "list" /\ tasks[t].vmid \notin SetOf(Stored(file))

\* l without v, the rest in order
Without(l, v) == SelectSeq(l, LAMBDA x : x # v)

\* C14: a monitor remove, from the administrative category, of an id the
\* stored list does not hold reports "not monitored" and writes nothing; of
\* an id it holds, it stores the list without that id and with every other
\* id in its place.  (The read and the write succeed.)
C14_RemoveKeepsOthers ==
  [][\A t \in Tasks :
       (/\ tasks[t].pc = "idle" /\ tasks'[t].cmd = "monitor_remove"
        /\ tasks'[t].cat = ALLOWED_CATEGORY_ID
        /\ file.kind = "list" /\ tasks'[t].fault = "none")
         => IF tasks'[t].vmid \notin SetOf(Stored(file))
            THEN /\ tasks'[t].reply = "not_monitored"
                 /\ file' = file
                 /\ FileWrites(tasks'[t].calls) = {}
            ELSE /\ tasks'[t].reply = "removed"
                 /\ file'.kind = "list"
                 /\ tasks'[t].vmid \notin SetOf(Stored(file'))
                 /\ Stored(file') = Without(Stored(file), tasks'[t].vmid)]_vars

\* an id has been removed and another id is still stored
C14_Witness ==
  \E t \in Tasks :
    /\ tasks[t].cmd = "monitor_remove" /\ tasks[t].reply = "removed"
    /\ tasks[t].fault = "none"
    /\ file.kind = "list" /\ Len(Stored(file)) = MaxId - 1
    /\ tasks[t].vmid \notin SetOf(Stored(file))

(***************************************************************************)
(* Properties of concurrent watchlist commands, under SpecWatch.           *)
(***************************************************************************)
\* C18: no lock is held from a monitor add's load to its save: when the
\* resolver returns, the add stores the list it loaded before the call with
\* its id appended, also when the file has been rewritten in between, and
\* what the other command stored is gone.
C18_StaleSnapshotOverwrites ==
  [][\A t \in Tasks :
       (/\ tasks[t].pc = "addresolve" /\ tasks'[t].reply = "added"
        /\ tasks'[t].fault = "none"
        /\ file.kind = "list" /\ Stored(file) # tasks[t].cur)
         => /\ file'.kind = "list"
            /\ Stored(file') = Append(tasks[t].cur, tasks[t].vmid)]_vars

\* two adds of different ids have both reported success, with every read and
\* write succeeding, and the stored list lacks one of the two ids
C18_Witness ==
  \E t, u \in Tasks :
    /\ t # u /\ tasks[t].vmid # tasks[u].vmid
    /\ tasks[t].cmd = "monitor_add" /\ tasks[t].reply = "added"
    /\ tasks[t].fault = "none"
    /\ tasks[u].cmd = "monitor_add" /\ tasks[u].reply = "added"
    /\ tasks[u].fault = "none"
    /\ file.kind = "list" /\ tasks[t].vmid \notin SetOf(Stored(file))

(***************************************************************************)
(* Properties of the two prompted commands, under Spec.                    *)
(***************************************************************************)
\* the calls of a log that are the operation op
CallsOf(calls, op) == {k \in 1..Len(calls) : calls[k].op = op}

\* C19: the stop command itself makes no call at all; a stop call is issued
\* only by a confirm callback of the prompt the command presented, so with
\* no confirm pressed there is none.
C19_StopOnlyOnConfirm ==
  \A t \in Tasks :
    tasks[t].cmd = "stop"
      => /\ tasks[t].calls = <<>>
         /\ cbs[t] # <<>> => (tasks[t].reply = "prompt" /\ view[t] # "none")
         /\ \A i \in 1..Len(cbs[t]) :
              CallsOf(cbs[t][i].calls, "status.stop.post") # {}
                => cbs[t][i].kind = "confirm"

\* a confirm on the stop prompt has issued the stop call
C19_Witness ==
  \E t \in Tasks :
    /\ tasks[t].cmd = "stop" /\ tasks[t].reply = "prompt"
    /\ \E i \in 1..Len(cbs[t]) :
         /\ cbs[t][i].kind = "confirm"
         /\ CallsOf(cbs[t][i].calls, "status.stop.post") # {}

\* C20: snapshot rollback presents its prompt only when the name asked for
\* is in the snapshot list it fetched; when it is not, the command reports
\* snapshot not found, presents no prompt, and no rollback call is ever
\* issued for it.  The command itself issues no rollback call: only a
\* confirm callback of a presented prompt does.
C20_RollbackPromptNeedsSnapshot ==
  \A t \in Tasks :
    tasks[t].cmd = "snapshot_rollback"
      => /\ view[t] # "none"
              => (tasks[t].reply = "prompt" /\ tasks[t].name \in tasks[t].snaps)
         /\ (tasks[t].results = <<TRUE>> /\ tasks[t].name \notin tasks[t].snaps)
              => /\ tasks[t].reply = "snapshot_not_found"
                 /\ view[t] = "none" /\ cbs[t] = <<>>
         /\ CallsOf(tasks[t].calls, "snapshot.rollback.post") = {}
         /\ cbs[t] # <<>> => view[t] # "none"
         /\ \A i \in 1..Len(cbs[t]) :
              CallsOf(cbs[t][i].calls, "snapshot.rollback.post") # {}
                => cbs[t][i].kind = "confirm"

\* a rollback to a name missing from a list that holds another snapshot has
\* been refused
C20_Witness ==
  \E t \in Tasks :
    /\ tasks[t].cmd = "snapshot_rollback"
    /\ tasks[t].reply = "snapshot_not_found"
    /\ tasks[t].snaps # {} /\ tasks[t].name \notin tasks[t].snaps
    /\ view[t] = "none"

(***************************************************************************)
(* The access gate under every configuration: one invocation of any        *)
(* command, with config.ALLOWED_CATEGORY_ID a category or None.            *)
(***************************************************************************)
InitGate ==
  /\ rResp = RespRaise /\ rArg = IntId(1) /\ rOut = NotFound /\ rPc = "off"
  /\ fRun = NoFileRun
  /\ ALLOWED_CATEGORY_ID \in Cats
  /\ cluster \in [Ids -> {"running", "absent"}]
  /\ file \in {FileList(l) : l \in WatchLists}
  /\ tasks = [t \in Tasks |-> IF t = 1 THEN IdleTask ELSE OffTask]
  /\ view = [t \in Tasks |-> "none"]
  /\ cbs = [t \in Tasks |-> <<>>]
  /\ mon = MonIdle
  /\ uptime = NoUptime /\ listing = NoListing
  /\ boot = Started

NextGate ==
  \/ \E t \in Tasks : InvokeTargeted(t)
  \/ \E t \in Tasks : Resolve(t)
  \/ \E t \in Tasks : Create(t)
  \/ \E t \in Tasks : CallReturn(t)
  \/ \E t \in Tasks : DeleteSleep(t)
  \/ \E t \in Tasks : Stop(t)
  \/ \E t \in Tasks : ListVms(t)
  \/ \E t \in Tasks : ListFetch(t)
  \/ \E t \in Tasks : MonitorAdd(t)
  \/ \E t \in Tasks : MonitorAddResolve(t)
  \/ \E t \in Tasks : MonitorRemove(t)
  \/ \E t \in Tasks : MonitorListCmd(t)

SpecGate == InitGate /\ [][NextGate]_vars

\* C24: a command invoked from a channel without a category is denied,
\* whatever config.ALLOWED_CATEGORY_ID is, None included.
C24_AbsentCategoryDenied ==
  \A t \in Tasks :
    (Invoked(t) /\ tasks[t].cat = None)
      => (tasks[t].pc = "done" /\ tasks[t].reply = "denied")

(***************************************************************************)
(* Prompts and panels after their timeout.                                 *)
(***************************************************************************)
\* the callbacks of slot t that were started by an action button
ActionClicks(t) == {i \in 1..Len(cbs[t]) : cbs[t][i].kind # "cancel"}

\* C21: once a prompt or panel has timed out it stays timed out and no
\* press reaches it any more, and if it timed out without an action button
\* having been pressed, none of its callbacks ever issues a call
C21_TimedOutPromptIsInert ==
  [][\A t \in Tasks :
       view[t] = "timedout"
         => /\ view'[t] = "timedout"
            /\ Len(cbs'[t]) = Len(cbs[t])
            /\ ActionClicks(t) = {}
                 => \A i \in 1..Len(cbs'[t]) : cbs'[t][i].calls = <<>>]_vars

C21_Witness ==
  \E t \in Tasks :
    /\ view[t] = "timedout"
    /\ tasks[t].cmd \in {"stop", "snapshot_rollback", "info"}
    /\ ActionClicks(t) = {}
    /\ tasks[t].pc = "done"

(***************************************************************************)
(* Where the callbacks take node and kind from.                            *)
(***************************************************************************)
\* C23: every per-machine call a button callback issues comes after a
\* resolver lookup made by that same callback
C23_CallbacksResolveAfresh ==
  \A t \in Tasks :
    \A i \in 1..Len(cbs[t]) :
      \A k \in 1..Len(cbs[t][i].calls) :
        cbs[t][i].calls[k].node # None
          => \E j \in 1..(k - 1) : cbs[t][i].calls[j].op = "cluster.resources.get"

(***************************************************************************)
(* create and its template.                                                *)
(***************************************************************************)
\* C30: a create that issues the clone call has looked its template up
\* through the resolver first, and a create whose template the resolver
\* would not find answers not-found
C30_CreateResolvesTemplate ==
  \A t \in Tasks :
    tasks[t].cmd = "create"
      => \A k \in 1..Len(tasks[t].calls) :
           tasks[t].calls[k].op = "clone.post"
             => \E j \in 1..(k - 1) : tasks[t].calls[j].op = "cluster.resources.get"

(***************************************************************************)
(* No call is made twice.                                                  *)
(***************************************************************************)
MutatingOps ==
  {"status.start.post", "status.reboot.post", "status.shutdown.post",
   "status.stop.post", "delete", "config.post", "snapshot.post",
   "snapshot.rollback.post", "clone.post"}

OnceEach(calls) ==
  \A op \in MutatingOps : Cardinality({k \in 1..Len(calls) : calls[k].op = op}) <= 1

\* C28: within one handler invocation, and within one button callback, each
\* mutating call is issued at most once, a failed one included, and no call
\* has more than one result
C28_NothingRetried ==
  \A t \in Tasks :
    /\ OnceEach(tasks[t].calls)
    /\ Len(tasks[t].results) <= Len(tasks[t].calls)
    /\ \A i \in 1..Len(cbs[t]) : OnceEach(cbs[t][i].calls)

C28_Witness ==
  \E t \in Tasks :
    /\ tasks[t].cmd = "start"
    /\ tasks[t].pc = "done" /\ tasks[t].reply = "failed"
    /\ tasks[t].results = <<FALSE>>
    /\ Cardinality({k \in 1..Len(tasks[t].calls) :
                      tasks[t].calls[k].op = "status.start.post"}) = 1

(***************************************************************************)
(* The loop and readiness; alerts from one tick to the next.  Under        *)
(* SpecMonitor.                                                            *)
(***************************************************************************)
\* C26: while the bot has not reported readiness no tick body has run: no
\* tick is counted, nothing is loaded, no entry is in work or logged
C26_NoTickBeforeReady ==
  ~mon.ready => mon = MonIdle

C26_Witness ==
  /\ mon.ready /\ TickOver
  /\ \E k \in 1..Len(mon.log) : mon.log[k].alerts = 1

ListCmds == {"monitor_list", "bpt_monitor_list"}

\* C29: when the inventory call of a watchlist listing returns, the command
\* ends with one line per stored id in stored order, the file untouched;
\* either the call failed and every line says unknown/deleted, or a line
\* carries kind and status exactly when its id is in the inventory
C29_ListRendersStored ==
  [][\A t \in Tasks :
       (tasks[t].cmd \in ListCmds /\ tasks[t].pc = "listfetch" /\ tasks'[t] # tasks[t])
         => LET cur == tasks[t].cur
                lines == tasks'[t].lines
            IN  /\ tasks'[t].pc = "done" /\ tasks'[t].reply = "ok"
                /\ file' = file
                /\ Len(lines) = Len(cur)
                /\ \A k \in 1..Len(cur) :
                     /\ lines[k].vmid = cur[k]
                     /\ lines[k].known
                          => /\ cluster[cur[k]] # "absent"
                             /\ lines[k].type = KindOf(cur[k])
                             /\ lines[k].status = cluster[cur[k]]
                /\ \/ \A k \in 1..Len(cur) : ~lines[k].known
                   \/ \A k \in 1..Len(cur) : lines[k].known <=> cluster[cur[k]] # "absent"]_vars

\* C22: no handler is left by an exception: every invocation that is under
\* way is at one of its awaits or has sent its answer
C22_NoFailureEscapes ==
  \A t \in Tasks : tasks[t].pc # "raised"

(***************************************************************************)
(* Two handlers at work on the same machine.                               *)
(***************************************************************************)
\* both slots take a command; the machines exist
InitPair ==
  /\ rResp = RespRaise /\ rArg = IntId(1) /\ rOut = NotFound /\ rPc = "off"
  /\ fRun = NoFileRun
  /\ ALLOWED_CATEGORY_ID = "admin"
  /\ cluster \in [Ids -> {"running", "stopped"}]
  /\ file = FileList(<<>>)
  /\ tasks = [t \in Tasks |-> IdleTask]
  /\ view = [t \in Tasks |-> "none"]
  /\ cbs = [t \in Tasks |-> <<>>]
  /\ mon = MonIdle
  /\ uptime = NoUptime /\ listing = NoListing
  /\ boot = Started

NextPair ==
  \/ \E t \in Tasks : InvokeTargeted(t)
  \/ \E t \in Tasks : Resolve(t)
  \/ \E t \in Tasks : CallReturn(t)
  \/ \E t \in Tasks : DeleteSleep(t)

SpecPair == InitPair /\ [][NextPair]_vars

\* C27: a start whose resolver call is due is never held back by a delete
\* that is at work on the same machine, be it in its stop call, in its grace
\* wait or in its delete call: the resolver call can return and, the machine
\* being there, the start call be issued
C27_NoMutualExclusion ==
  \A d \in Tasks, s \in Tasks :
    (/\ d # s
     /\ tasks[d].cmd = "delete" /\ tasks[d].pc \in {"call", "sleep"}
     /\ tasks[s].cmd = "start" /\ tasks[s].pc = "resolve"
     /\ tasks[s].vmid = tasks[d].vmid
     /\ cluster[tasks[s].vmid] # "absent")
      => ENABLED (Resolve(s) /\ tasks'[s].pc = "call")

\* the start call was issued after the delete's stop call and before its
\* delete call
C27_Witness ==
  \E d \in Tasks, s \in Tasks :
    /\ d # s
    /\ tasks[d].cmd = "delete" /\ tasks[s].cmd = "start"
    /\ tasks[s].vmid = tasks[d].vmid
    /\ Len(tasks[d].seqs) = 2 /\ Len(tasks[s].seqs) = 1
    /\ tasks[d].results[1]
    /\ tasks[d].seqs[1] < tasks[s].seqs[1]
    /\ tasks[s].seqs[1] < tasks[d].seqs[2]

(***************************************************************************)
(* The uptime field of info: str(timedelta(seconds=uptime_sec)).           *)
(***************************************************************************)
Digits == <<"0", "1", "2", "3", "4", "5", "6", "7", "8", "9">>

RECURSIVE Str(_)
\* "%d" of a non-negative integer, one character per element
Str(n) == IF n < 10 THEN <<Digits[n + 1]>> ELSE Str(n \div 10) \o <<Digits[(n % 10) + 1]>>

\* "%02d"
Pad2(n) == IF n < 10 THEN <<"0">> \o Str(n) ELSE Str(n)

\* "%d:%02d:%02d" % (hh, mm, ss)
HMS(hh, mm, ss) == Str(hh) \o <<":">> \o Pad2(mm) \o <<":">> \o Pad2(ss)

\* timedelta.__str__: the seconds are normalised into days and the seconds
\* of the day; hours, minutes and seconds are taken of the latter, and the
\* days, if any, are written in front
TimedeltaStr(sec) ==
  LET days == sec \div 86400
      rest == sec % 86400
      s == HMS(rest \div 3600, (rest % 3600) \div 60, rest % 60)
  IN  IF days = 0 THEN s
      ELSE Str(days) \o <<" ", "d", "a", "y">> \o (IF days # 1 THEN <<"s">> ELSE <<>>)
             \o <<",", " ">> \o s

\* the uptimes tried: around the minute, the hour and the day
UptimeSamples ==
  {h * 3600 + m * 60 + s : h \in {0, 1, 23, 24, 25, 48}, m \in {0, 1, 59}, s \in {0, 1, 59}}

InitUptime ==
  /\ rResp = RespRaise /\ rArg = IntId(1) /\ rOut = NotFound /\ rPc = "off"
  /\ fRun = NoFileRun
  /\ ALLOWED_CATEGORY_ID = "admin"
  /\ cluster = [i \in Ids |-> "absent"]
  /\ file = FileAbsent
  /\ tasks = [t \in Tasks |-> OffTask]
  /\ view = [t \in Tasks |-> "none"]
  /\ cbs = [t \in Tasks |-> <<>>]
  /\ mon = MonIdle
  /\ uptime \in {[pc |-> "call", sec |-> n, str |-> <<>>] : n \in UptimeSamples}
  /\ listing = NoListing
  /\ boot = Started

\* uptime_str = str(timedelta(seconds=uptime_sec))
RenderUptime ==
  /\ uptime.pc = "call"
  /\ uptime' = [uptime EXCEPT !.pc = "done", !.str = TimedeltaStr(uptime.sec)]
  /\ UNCHANGED <<configVars, startupVars, resolverVars, fRun, cluster, file, tasks, promptVars, mon, listing>>

NextUptime == RenderUptime

SpecUptime == InitUptime /\ [][NextUptime]_vars

\* C32: every uptime is rendered as H:MM:SS with H the whole hours, not
\* wrapped at 24, and MM and SS two digits
C32_UptimeIsHMS ==
  uptime.pc = "done"
    => uptime.str = HMS(uptime.sec \div 3600, (uptime.sec % 3600) \div 60, uptime.sec % 60)

(***************************************************************************)
(* The listing of list: BasicCommands.list_vms on every bounded inventory  *)
(* answer.                                                                 *)
(***************************************************************************)
\* a sort that leaves the listing as it came
SortAsFetched(l) == l

\* the sorted listing with one more entry: e goes after the last entry whose
\* numeric id is not greater
InsertByVmid(l, e) ==
  LET n == Cardinality({k \in 1..Len(l) : PyInt(l[k].vmid) <= PyInt(e.vmid)})
  IN  SubSeq(l, 1, n) \o <<e>> \o SubSeq(l, n + 1, Len(l))

RECURSIVE SortByVmid(_)
\* vms.sort(key=lambda x: int(x['vmid'])): ascending, entries with equal
\* keys in their original order
SortByVmid(l) ==
  IF l = <<>> THEN <<>>
  ELSE InsertByVmid(SortByVmid(SubSeq(l, 1, Len(l) - 1)), l[Len(l)])

\* one line of the listing: the state icon, the kind icon, the id as the
\* inventory wrote it, the kind (the name comes from the same entry)
ListLine(vm) ==
  [icon |-> IF vm.status = "running" THEN "green" ELSE "red",
   type_icon |-> IF vm.type = "qemu" THEN "vm" ELSE "box",
   vmid |-> vm.vmid, type |-> vm.type]

\* the try block of list_vms and its except: sorting what is not a list
\* raises like the call itself
ListVmsRender(resp) ==
  IF resp.kind = "list"
  THEN LET vms == SortByVmid(resp.list)
       IN  [kind |-> "listing", lines |-> [k \in 1..Len(vms) |-> ListLine(vms[k])]]
  ELSE [kind |-> "failed", lines |-> <<>>]

ListEntries ==
  {Entry(v, "pve1", k, st) : v \in RawIds, k \in Kinds, st \in {"running", "stopped"}}

ListResponses ==
  {RespRaise, RespNone} \cup {RespList(l) : l \in ListsUpTo(ListEntries, MaxInv)}

InitList ==
  /\ rResp = RespRaise /\ rArg = IntId(1) /\ rOut = NotFound /\ rPc = "off"
  /\ fRun = NoFileRun
  /\ ALLOWED_CATEGORY_ID = "admin"
  /\ cluster = [i \in Ids |-> "absent"]
  /\ file = FileAbsent
  /\ tasks = [t \in Tasks |-> OffTask]
  /\ view = [t \in Tasks |-> "none"]
  /\ cbs = [t \in Tasks |-> <<>>]
  /\ mon = MonIdle
  /\ uptime = NoUptime
  /\ listing \in {[pc |-> "call", resp |-> r, kind |-> "none", lines |-> <<>>] :
                    r \in ListResponses}
  /\ boot = Started

\* list_vms from the inventory call to the message sent
RenderList ==
  /\ listing.pc = "call"
  /\ LET out == ListVmsRender(listing.resp)
     IN  listing' = [listing EXCEPT !.pc = "done", !.kind = out.kind, !.lines = out.lines]
  /\ UNCHANGED <<configVars, startupVars, resolverVars, fRun, cluster, file, tasks, promptVars, mon, uptime>>

NextList == RenderList

SpecList == InitList /\ [][NextList]_vars

\* C31: a fetched inventory is rendered with one line per entry, each entry
\* once, in ascending order of the numeric id whether ids come as numbers or
\* as strings; a failed fetch gives the failure message and no line
C31_ListSortedComplete ==
  listing.pc = "done" =>
    LET l == listing.resp.list
        n == Len(l)
    IN  IF listing.resp.kind = "list"
        THEN /\ listing.kind = "listing"
             /\ Len(listing.lines) = n
             /\ \E p \in [1..n -> 1..n] :
                  /\ \A i \in 1..n, j \in 1..n : i # j => p[i] # p[j]
                  /\ \A k \in 1..n : listing.lines[k] = ListLine(l[p[k]])
             /\ \A i \in 1..n, j \in 1..n :
                  i < j => PyInt(listing.lines[i].vmid) <= PyInt(listing.lines[j].vmid)
        ELSE listing.kind = "failed" /\ listing.lines = <<>>

\* machine 2, written as a number, was fetched before machine 1, written as
\* the string "01", and is listed after it
C31_Witness ==
  /\ listing.pc = "done" /\ listing.resp.kind = "list" /\ Len(listing.resp.list) = 2
  /\ listing.resp.list[1].vmid = IntId(2)
  /\ listing.resp.list[2].vmid = StrId(<<0, 1>>)
  /\ listing.lines[1].vmid = StrId(<<0, 1>>)
  /\ listing.lines[2].vmid = IntId(2)

(***************************************************************************)
(* Id autocomplete: utils/api.py vmid_autocomplete, run by the library     *)
(* while a user types an id parameter of any command.                      *)
(***************************************************************************)
\* vmid_autocomplete: the inventory call, then the choices; a failure is
\* printed and gives no choices.  The context is not looked at.
VmidAutocomplete(t) ==
  /\ tasks[t].pc = "idle"
  /\ \E cat \in Cats, resp \in InventoryResponses(cluster) :
       LET tk == Logged(Begin("autocomplete", 0, 0, None, cat),
                        Call("cluster.resources.get", None, None, 0))
       IN  SetTask(t, Reply(tk, IF resp.kind = "list" THEN "choices" ELSE "no_choices"))
  /\ UNCHANGED <<configVars, startupVars, renderVars, resolverVars, fRun, cluster, file, promptVars, mon>>

NextAuto ==
  \/ Next
  \/ \E t \in Tasks : VmidAutocomplete(t)

SpecAuto == Init /\ [][NextAuto]_vars

\* C33: an interaction from a channel whose category is not the
\* administrative one has no hypervisor call issued for it, be it a command,
\* an autocomplete request or a button press
C33_NoCallOutsideAdmin ==
  \A t \in Tasks :
    (Invoked(t) /\ tasks[t].cat # ALLOWED_CATEGORY_ID)
      => /\ \A k \in 1..Len(tasks[t].calls) :
              tasks[t].calls[k].op \in {"file.exists", "file.read", "file.write"}
         /\ \A i \in 1..Len(cbs[t]) : cbs[t][i].calls = <<>>

(***************************************************************************)
(* When a panel or a rollback prompt stops taking presses.                 *)
(***************************************************************************)
Panels == {"info", "snapshot_rollback"}

\* the action callbacks of slot t that ended with the given answer
EndedWith(c, t, reply) ==
  {i \in 1..Len(c[t]) : c[t][i].kind # "cancel" /\ c[t][i].pc = "done" /\ c[t][i].reply = reply}

\* a callback of slot t has got its call through, or a cancel was pressed
Succeeding(c, t) ==
  \E i \in 1..Len(c[t]) : c[t][i].kind = "cancel" \/ c[t][i].pc = "sent" \/ c[t][i].reply = "ok"

\* a successful action has completed on the view of slot t: it is not active;
\* only failed actions so far and no timeout: it is still active
InertIffSucceeded(v, c, t) ==
  /\ EndedWith(c, t, "ok") # {} => v[t] # "active"
  /\ (EndedWith(c, t, "failed") # {} /\ ~Succeeding(c, t) /\ v[t] # "timedout")
       => v[t] = "active"

C35_RemovesBothTakeEffect ==
  [][\A t \in Tasks :
       (/\ tasks[t].reply # "removed"
        /\ tasks'[t].cmd = "monitor_remove" /\ tasks'[t].reply = "removed"
        /\ tasks'[t].fault = "none")
         => LET before == IF file.kind = "absent" THEN InitialList(MONITOR_VM_IDS)
                          ELSE Stored(file)
            IN  /\ file.kind # "corrupt"
                /\ tasks'[t].vmid \in SetOf(before)
                /\ file' = FileList(RemoveFirst(before, tasks'[t].vmid))
                /\ \A u \in Tasks \ {t} :
                     (/\ tasks[u].cmd = "monitor_remove" /\ tasks[u].reply = "removed"
                      /\ tasks[u].vmid \notin SetOf(before))
                       => tasks[u].vmid \notin SetOf(Stored(file'))]_vars

\* both ids of a full list have been removed by two removes
C35_Witness ==
  /\ tasks[1].cmd = "monitor_remove" /\ tasks[1].reply = "removed" /\ tasks[1].fault = "none"
  /\ tasks[2].cmd = "monitor_remove" /\ tasks[2].reply = "removed" /\ tasks[2].fault = "none"
  /\ tasks[1].vmid # tasks[2].vmid
  /\ Len(tasks[1].cur) + Len(tasks[2].cur) = 1
  /\ file = FileList(<<>>)

(***************************************************************************)
(* The monitor loop and the stored list, under SpecMonitor.                *)
(***************************************************************************)
\* C36: no step of a tick changes an existing file, whatever the entry's
\* outcome; the one write a tick makes is the seeding of an absent file,
\* which, the write succeeding, stores the configured initial list
C36_TickKeepsMembership ==
  [][mon' # mon
       => \/ file' = file
          \/ /\ file.kind = "absent" /\ mon.pc = "wait"
             /\ file' \in {FileList(InitialList(MONITOR_VM_IDS)), FileCorrupt}]_vars

\* a tick is over, it did not resolve one of its entries, and the file holds
\* the list the tick loaded
C36_Witness ==
  /\ TickOver /\ file.kind = "list" /\ Stored(file) = mon.ids
  /\ \E k \in 1..Len(mon.log) : ~mon.log[k].resolved
  /\ \E k \in 1..Len(mon.log) : mon.log[k].alerts = 1

(***************************************************************************)
(* A machine action, the monitor loop and the watchlist listing together:  *)
(* slot 1 takes a machine command, slot 2 a watchlist listing, the loop    *)
(* ticks; the file holds a list and nothing but the program changes the    *)
(* cluster.                                                                *)
(***************************************************************************)
InitStale ==
  /\ rResp = RespRaise /\ rArg = IntId(1) /\ rOut = NotFound /\ rPc = "off"
  /\ fRun = NoFileRun
  /\ ALLOWED_CATEGORY_ID = "admin"
  /\ cluster \in [Ids -> {"running", "stopped"}]
  /\ file \in {FileList(l) : l \in WatchLists \ {<<>>}}
  /\ tasks = [t \in Tasks |-> IdleTask]
  /\ view = [t \in Tasks |-> "none"]
  /\ cbs = [t \in Tasks |-> <<>>]
  /\ mon = MonReady
  /\ uptime = NoUptime /\ listing = NoListing
  /\ boot = Started

NextStale ==
  \/ InvokeTargeted(1)
  \/ Create(1)
  \/ Resolve(1)
  \/ CallReturn(1)
  \/ DeleteSleep(1)
  \/ MonitorListCmd(MaxTasks)
  \/ ListFetch(MaxTasks)
  \/ TickStart
  \/ TickResolve
  \/ TickFetch
  \/ TickSend

SpecStale == InitStale /\ [][NextStale]_vars

\* C37: no step of a machine command changes the watchlist file; a tick that
\* comes to an entry whose machine is gone passes over it, with no status
\* call, no alert and no failure; and a watchlist listing renders an id
\* whose machine is gone as unknown/deleted
C37_DeletedStaysListed ==
  [][/\ tasks'[1] # tasks[1] => file' = file
     /\ (mon.pc = "resolve" /\ mon' # mon /\ cluster[mon.ids[mon.i]] = "absent")
          => /\ file' = file
             /\ mon'.log = Append(mon.log,
                                  EntryLog(mon.ids[mon.i], FALSE, 0, None, 0, 0, "none"))
     /\ (tasks[MaxTasks].pc = "listfetch" /\ tasks'[MaxTasks] # tasks[MaxTasks])
          => /\ file' = file
             /\ \A k \in 1..Len(tasks[MaxTasks].cur) :
                  cluster[tasks[MaxTasks].cur[k]] = "absent"
                    => ~tasks'[MaxTasks].lines[k].known]_vars

\* a listed machine has been deleted; its id is still stored, a tick has
\* passed over it and the listing shows it as unknown/deleted
C37_Witness ==
  /\ tasks[1].cmd = "delete" /\ tasks[1].reply = "ok"
  /\ cluster[tasks[1].vmid] = "absent"
  /\ file.kind = "list" /\ tasks[1].vmid \in SetOf(Stored(file))
  /\ TickOver
  /\ \E k \in 1..Len(mon.log) :
       mon.log[k] = EntryLog(tasks[1].vmid, FALSE, 0, None, 0, 0, "none")
  /\ tasks[MaxTasks].cmd = "monitor_list" /\ tasks[MaxTasks].reply = "ok"
  /\ \E k \in 1..Len(tasks[MaxTasks].lines) :
       /\ tasks[MaxTasks].lines[k].vmid = tasks[1].vmid
       /\ ~tasks[MaxTasks].lines[k].known

(***************************************************************************)
(* A tick without its alert channel, under SpecMonitor.                    *)
(***************************************************************************)
\* C38: a tick that does not get its alert channel ends at once: the file is
\* neither seeded nor otherwise touched, no list is loaded, no entry is
\* taken up or logged, and the loop waits for its next tick, which can start
C38_NoChannelNoTick ==
  [][(mon'.ticks = mon.ticks + 1 /\ ~mon'.ran)
       => /\ file' = file
          /\ cluster' = cluster
          /\ mon' = [MonIdle EXCEPT !.ticks = mon'.ticks, !.ready = TRUE,
                                    !.alerted = mon'.alerted]
          /\ mon'.ticks < MaxTicks => (ENABLED TickStart)']_vars

\* every tick so far found no channel, and the absent file is still absent
C38_Witness ==
  /\ mon.ticks = MaxTicks /\ ~mon.ran /\ mon.pc = "wait"
  /\ file = FileAbsent

(***************************************************************************)
(* What the success message of a watchlist command says about the file.    *)
(***************************************************************************)
\* C39: a monitor add that answered "added" has its id in the stored list,
\* and a monitor remove that answered "removed" has its id out of it
C39_SuccessMeansPersisted ==
  \A t \in Tasks :
    /\ (tasks[t].cmd = "monitor_add" /\ tasks[t].reply = "added")
         => (file.kind = "list" /\ tasks[t].vmid \in SetOf(Stored(file)))
    /\ (tasks[t].cmd = "monitor_remove" /\ tasks[t].reply = "removed")
         => (file.kind = "list" /\ tasks[t].vmid \notin SetOf(Stored(file)))

(***************************************************************************)
(* Startup: main.py ProxmoxBot.setup_hook over the cogs directory.         *)
(***************************************************************************)
CogFiles == {"basic.py", "management.py", "monitoring.py"}

\* what else the directory may hold
OtherFiles == {"__init__.py", "__pycache__"}

\* filename.endswith('.py')
EndsWithPy(f) == f \in CogFiles \cup {"__init__.py"}

\* filename.startswith('__')
StartsWithDunder(f) == f \in {"__init__.py", "__pycache__"}

\* the condition of the loop body
IsExtension(f) == EndsWithPy(f) /\ ~StartsWithDunder(f)

\* the names each module defines at its top level
Defines(m) ==
  CASE m = "utils.api" ->
         {"AsyncProxmox", "proxmox_wrapper", "get_device_node_and_type", "vmid_autocomplete"}
    [] m = "utils.common" -> {"check_access"}
    [] OTHER -> {"create_graph_blocking", "generate_graph"}

\* the from-imports of each cog: module and name
Imports(f) ==
  CASE f = "basic.py" ->
         {<<"utils.api", "proxmox">>, <<"utils.api", "run_proxmox_async">>,
          <<"utils.api", "get_device_node_and_type">>, <<"utils.api", "check_access">>,
          <<"utils.api", "vmid_autocomplete">>, <<"utils.plotting", "generate_graph">>}
    [] OTHER ->
         {<<"utils.api", "proxmox_wrapper">>, <<"utils.api", "get_device_node_and_type">>,
          <<"utils.api", "vmid_autocomplete">>, <<"utils.common", "check_access">>}

\* from m import name succeeds when m defines name
ImportsOk(f) == \A imp \in Imports(f) : imp[2] \in Defines(imp[1])

\* the commands a cog adds to the tree
CommandsOf(f) ==
  CASE f = "basic.py" -> {"list", "info", "graph"}
    [] f = "management.py" ->
         {"create", "resize", "start", "reboot", "shutdown", "stop", "delete", "snapshot"}
    [] OTHER -> {"monitor"}

Catalog == UNION {CommandsOf(f) : f \in CogFiles}

\* the orders os.listdir can give the files in
Orderings(S) ==
  {d \in [1..Cardinality(S) -> S] : \A i, j \in 1..Cardinality(S) : d[i] = d[j] => i = j}

\* os.listdir('./cogs'): the directory found at startup holds cog files and
\* what else a package directory holds, in any order
Listings == UNION {Orderings(S) : S \in SUBSET (CogFiles \cup OtherFiles)}

InitStartup ==
  /\ rResp = RespRaise /\ rArg = IntId(1) /\ rOut = NotFound /\ rPc = "off"
  /\ fRun = NoFileRun
  /\ ALLOWED_CATEGORY_ID = "admin"
  /\ cluster = [i \in Ids |-> "absent"]
  /\ file = FileAbsent
  /\ tasks = [t \in Tasks |-> OffTask]
  /\ view = [t \in Tasks |-> "none"]
  /\ cbs = [t \in Tasks |-> <<>>]
  /\ mon = MonIdle
  /\ uptime = NoUptime /\ listing = NoListing
  /\ boot \in {[pc |-> "load", dir |-> d, i |-> 1, loaded |-> {}, registered |-> {}] :
                  d \in Listings}

\* one turn of the for loop: a file that is no extension is passed over; an
\* extension is imported and set up, and a failing import raises out of
\* load_extension and out of setup_hook
LoadExtension ==
  /\ boot.pc = "load" /\ boot.i <= Len(boot.dir)
  /\ LET f == boot.dir[boot.i]
     IN  boot' = IF ~IsExtension(f) THEN [boot EXCEPT !.i = @ + 1]
                 ELSE IF ~ImportsOk(f) THEN [boot EXCEPT !.pc = "raised"]
                 ELSE [boot EXCEPT !.i = @ + 1, !.loaded = @ \cup {f},
                                   !.registered = @ \cup CommandsOf(f)]
  /\ UNCHANGED <<configVars, renderVars, resolverVars, fRun, cluster, file, tasks,
                 promptVars, mon>>

\* past the loop: copy_global_to and tree.sync
SyncTree ==
  /\ boot.pc = "load" /\ boot.i > Len(boot.dir)
  /\ boot' = [boot EXCEPT !.pc = "synced"]
  /\ UNCHANGED <<configVars, renderVars, resolverVars, fRun, cluster, file, tasks,
                 promptVars, mon>>

NextStartup ==
  \/ LoadExtension
  \/ SyncTree

SpecStartup == InitStartup /\ [][NextStartup]_vars

\* C40: setup_hook is never left by a failing extension, and with the three
\* cogs in the directory the sync is reached with every cog loaded and the
\* whole catalog registered
C40_StartupRegistersAll ==
  /\ boot.pc # "raised"
  /\ (boot.pc = "synced" /\ CogFiles \subseteq {boot.dir[k] : k \in 1..Len(boot.dir)})
       => (boot.loaded = CogFiles /\ boot.registered = Catalog)

====
